---- MODULE Spec2Model ----
(***************************************************************************)
(* Race Live (OpenF1) follower supervision of src/bot.py:                  *)
(* the window resolver, the supervisor loop, the per-guild follower task   *)
(* (race_live_loop inside its runner), and the administrative commands     *)
(* racelivekill, racelivestop, racelivestart.                              *)
(*                                                                         *)
(* Every asyncio task is a process whose position (pc) is the await it is  *)
(* suspended at; one action is the code a task runs between two awaits.    *)
(* What the outside world answers (the OpenF1 responses, the clock, a send *)
(* that fails) is chosen with \E from small sets.                          *)
(*                                                                         *)
(* Abstractions: a debug line is its message without the wall-clock        *)
(* prefix; a signature f"{dt}|{msg}" is the pair <<dt, msg>>; dates are    *)
(* minutes as integers, 0 standing for a missing date.                     *)
(*                                                                         *)
(* Specifications: Spec, SpecFeed and SpecCmds run the whole section with  *)
(* different budgets (SpecCmds without racelivetail); SpecSup runs it with *)
(* no administrator command, in a bot that is in no guild or in two;       *)
(* SpecReady adds further firings of on_ready; SpecWindow applies the      *)
(* window resolver and the supervisor's choice of session to what the      *)
(* sessions endpoint may answer; SpecLog applies _racelog alone until the  *)
(* trail has overflowed; SpecAuth lets the feed answer 401 and 403;        *)
(* SpecSlice feeds responses longer than the slice the follower reads;     *)
(* SpecPair has racelivestart as its only command and a response for each  *)
(* of two followers.                                                       *)
(***************************************************************************)
EXTENDS Integers, Sequences, FiniteSets, TLC

\* ---------------------------------------------------------------- bounds
\* Spec, the supervision runs: follower tasks ever created, feed responses
\* (answered or failed, all tasks together), commands invoked, longest response
MaxTasks == 2
MaxPolls == 1
MaxCmds == 1
MaxBatch == 1

\* SpecFeed, the runs of one follower over several responses
FeedTasks == 1
FeedPolls == 2
FeedCmds == 1
FeedBatch == 2

\* SpecCmds, the runs with two commands
CmdsTasks == 2
CmdsPolls == 1
CmdsCmds == 2
CmdsBatch == 1

\* ------------------------------------------------------ program constants
DEQUE_MAXLEN == 200
LAST_ITEMS == 30
KILL_TAIL_LINES == 20
PAD_MIN == 0
PAD_MAX == 72
TAIL_MIN == 1
TAIL_MAX == 50

\* the guilds the bot is in (bot.guilds), iterated in this order
GuildIds == {1}

None == "None"

\* ------------------------------------------------------------ dictionaries
\* a Python dict is a function whose domain is the set of its keys
EmptyDict == [k \in {} |-> None]

DictGet(d, k, default) == IF k \in DOMAIN d THEN d[k] ELSE default

DictSet(d, k, v) == [x \in (DOMAIN d) \cup {k} |-> IF x = k THEN v ELSE d[x]]

\* d.setdefault(k, v): only a missing key is set
DictSetDefault(d, k, v) == IF k \in DOMAIN d THEN d ELSE DictSet(d, k, v)

\* list(buf)[-n:] for n >= 1
LastN(s, n) == IF Len(s) <= n THEN s ELSE SubSeq(s, Len(s) - n + 1, Len(s))

\* ------------------------------------------------------------- debug trail
\* a trail that keeps every line
DequeAppendUnbounded(buf, line) == Append(buf, line)

\* deque(maxlen=200).append(line): the oldest line is dropped when full
DequeAppend(buf, line) == LastN(Append(buf, line), DEQUE_MAXLEN)

\* _racelog(gid, msg) on the dict RACE_LIVE_DEBUG
Racelog(debug, gid, msg) ==
    DictSet(debug, gid, DequeAppend(DictGet(debug, gid, <<>>), msg))

\* _racetail(gid, n): the lines joined for display, or the placeholder (as a
\* line, like the lines of a trail)
NO_LINES == <<<<"(no debug lines captured)", 0>>>>

Racetail(debug, gid, n) ==
    LET buf == DictGet(debug, gid, <<>>)
        tail == LastN(buf, n)
    IN  IF tail # <<>> THEN tail ELSE NO_LINES

\* ---------------------------------------------------------- window resolver
\* A session of the OpenF1 "sessions" endpoint. Times are minutes; a date of 0
\* is a missing date, a date of -1 a string datetime.fromisoformat rejects, a
\* key of 0 a missing key, "" a missing string.
Session(sk, mk, type, name, ds, de) ==
    [session_key |-> sk, meeting_key |-> mk, session_type |-> type,
     session_name |-> name, date_start |-> ds, date_end |-> de]

FOLLOW_SESSION_TYPES ==
    {"RACE", "QUALIFYING", "QUALI", "SPRINT", "SPRINT QUALIFYING", "SPRINT SHOOTOUT"}

\* str.upper().strip() on the spellings the model's sessions use
UpperStrip(x) ==
    CASE x = "Race" -> "RACE"
      [] x = "Qualifying " -> "QUALIFYING"
      [] x = "Practice" -> "PRACTICE"
      [] OTHER -> x

\* _session_type_upper(s)
SessionTypeUpper(s) ==
    UpperStrip(IF s.session_type # "" THEN s.session_type ELSE s.session_name)

Min(a, b) == IF a <= b THEN a ELSE b

Max(a, b) == IF a >= b THEN a ELSE b

\* the first element taken for the least
SeqMinFirst(s) == s[1]

SeqMin(s) == CHOOSE x \in {s[i] : i \in DOMAIN s} : \A j \in DOMAIN s : x <= s[j]

SeqMax(s) == CHOOSE x \in {s[i] : i \in DOMAIN s} : \A j \in DOMAIN s : x >= s[j]

\* a padding taken as configured
WindowPadUnclamped(pad_hours) == 60 * pad_hours

\* timedelta(hours=max(0, min(72, pad_hours))), in minutes
WindowPad(pad_hours) == 60 * Max(PAD_MIN, Min(PAD_MAX, pad_hours))

RaiseResult == [kind |-> "raise"]

NoneResult == [kind |-> "none"]

\* a resolver that takes every sibling session for a followed one
PickWindowUnfiltered(latest, all_sessions, pad_hours) ==
    IF latest = <<>> THEN NoneResult
    ELSE IF latest[1].meeting_key = 0 THEN NoneResult
    ELSE IF all_sessions = <<>> THEN NoneResult
    ELSE
      LET relevant == all_sessions
          withStart == SelectSeq(relevant, LAMBDA s : s.date_start # 0)
          withEnd == SelectSeq(relevant, LAMBDA s : s.date_end # 0)
          starts == [i \in DOMAIN withStart |-> withStart[i].date_start]
          ends == [i \in DOMAIN withEnd |-> withEnd[i].date_end]
      IN  IF relevant = <<>> THEN NoneResult
          ELSE IF \E i \in DOMAIN starts : starts[i] < 0 THEN RaiseResult
          ELSE IF \E i \in DOMAIN ends : ends[i] < 0 THEN RaiseResult
          ELSE IF starts = <<>> \/ ends = <<>> THEN NoneResult
          ELSE [kind |-> "window",
                window_start |-> SeqMin(starts) - WindowPad(pad_hours),
                window_end |-> SeqMax(ends) + WindowPad(pad_hours),
                meta |-> relevant[1],
                relevant |-> relevant]

\* _pick_current_meeting_and_window(http), given what the two requests answer
\* (latest: the answer to session_key=latest; all_sessions: the answer to
\* meeting_key=...) and the configured padding
PickWindow(latest, all_sessions, pad_hours) ==
    IF latest = <<>> THEN NoneResult
    ELSE IF latest[1].meeting_key = 0 THEN NoneResult
    ELSE IF all_sessions = <<>> THEN NoneResult
    ELSE
      LET relevant == SelectSeq(all_sessions,
                        LAMBDA s : SessionTypeUpper(s) \in FOLLOW_SESSION_TYPES)
          withStart == SelectSeq(relevant, LAMBDA s : s.date_start # 0)
          withEnd == SelectSeq(relevant, LAMBDA s : s.date_end # 0)
          starts == [i \in DOMAIN withStart |-> withStart[i].date_start]
          ends == [i \in DOMAIN withEnd |-> withEnd[i].date_end]
      IN  IF relevant = <<>> THEN NoneResult
          ELSE IF \E i \in DOMAIN starts : starts[i] < 0 THEN RaiseResult
          ELSE IF \E i \in DOMAIN ends : ends[i] < 0 THEN RaiseResult
          ELSE IF starts = <<>> \/ ends = <<>> THEN NoneResult
          ELSE [kind |-> "window",
                window_start |-> SeqMin(starts) - WindowPad(pad_hours),
                window_end |-> SeqMax(ends) + WindowPad(pad_hours),
                meta |-> relevant[1],
                relevant |-> relevant]

\* _key(s) of the supervisor: the start, or datetime.min for a missing one
MinDate == -1000000

\* a key that sorts a session without a start after every other one
StartKeyMissingLast(s) == IF s.date_start # 0 THEN s.date_start ELSE -MinDate

StartKey(s) == IF s.date_start # 0 THEN s.date_start ELSE MinDate

\* sorted(relevant, key=_key)[-1]: the sort is stable, so among the sessions
\* with the greatest key the last one of the list is taken
LatestRelevant(relevant) ==
    LET top == SeqMax([i \in DOMAIN relevant |-> StartKey(relevant[i])])
        idx == CHOOSE i \in DOMAIN relevant :
                 /\ StartKey(relevant[i]) = top
                 /\ \A j \in DOMAIN relevant : StartKey(relevant[j]) = top => j <= i
    IN  relevant[idx]

\* ------------------------------------------------ what OpenF1 may answer
S_Practice == Session(1, 7, "Practice", "", 100, 200)

S_Quali == Session(2, 7, "", "Qualifying ", 600, 690)

S_Race == Session(3, 7, "Race", "", 780, 900)

\* the race as the latest session, answered without its meeting_key
S_NoMeeting == Session(3, 0, "Race", "", 780, 900)

Latests == {<<>>, <<S_Race>>, <<S_NoMeeting>>}

SiblingLists == {<<>>, <<S_Practice>>, <<S_Practice, S_Quali>>,
                 <<S_Practice, S_Quali, S_Race>>, <<S_Race, S_Quali>>}

PadHours == {1}

Times == {539, 700, 961}

\* ------------------------------------------------------------ control items
\* An item of the "race_control" endpoint. isdict = FALSE is an element that is
\* not an object (item.get raises); date 0 is a missing date; the message is a
\* sequence of characters.
Item(isdict, d, m) == [isdict |-> isdict, date |-> d, message |-> m]

I_A == Item(TRUE, 1, <<"a">>)

I_Apad == Item(TRUE, 1, <<" ", "a">>)

I_B == Item(TRUE, 2, <<"b">>)

I_Blank == Item(TRUE, 2, <<" ">>)

I_Bad == Item(FALSE, 0, <<>>)

Items == {I_A, I_Apad, I_B, I_Blank, I_Bad}

RECURSIVE LStrip(_)
LStrip(m) == IF m # <<>> /\ Head(m) = " " THEN LStrip(Tail(m)) ELSE m

RECURSIVE RStrip(_)
RStrip(m) ==
    IF m # <<>> /\ m[Len(m)] = " " THEN RStrip(SubSeq(m, 1, Len(m) - 1)) ELSE m

\* str(item.get("message") or "").strip()
ItemMsg(item) == RStrip(LStrip(item.message))

\* sig = f"{dt}|{msg}"
Sig(item) == <<item.date, ItemMsg(item)>>

\* the responses the feed may give: every list of at most n items
Batches(n) == UNION {[1..k -> Items] : k \in 0..n}

\* a debug line: the text of the message and the number it carries
Line(text, n) == <<text, n>>

\* what a destination shows for a relayed item (the date is kept to compare
\* the order of relays with the order of the timestamps)
Post(item) == [date |-> item.date, text |-> ItemMsg(item)]

\* ------------------------------------------------------------------- state
VARIABLES
    guilds,                 \* bot.guilds
    RACE_LIVE_TASKS,        \* gid -> task (an index of tasks)
    RACE_LIVE_ENABLED,      \* gid -> BOOLEAN
    RACE_LIVE_DEBUG,        \* gid -> deque of lines
    RACE_LIVE_POSTED_SIGS,  \* gid -> set of signatures
    tasks,                  \* every follower task created, in creation order
    threads,                \* every destination created: what was relayed to it
    sup,                    \* the supervisor task
    starts,                 \* the racelivestart invocations
    reply,                  \* what the last command answered
    polls,                  \* feed responses so far
    cmds,                   \* commands invoked so far
    budget,                 \* how far the run may go: [tasks, polls, cmds, batch, ticks, statuses, feed]
    killed,                 \* history: the tasks racelivekill found suspended
    ticks,                  \* history: the first supervisor cycles, as far as budget.ticks
    sups                    \* the race_supervisor_loop tasks on_ready has created

vars == <<guilds, RACE_LIVE_TASKS, RACE_LIVE_ENABLED, RACE_LIVE_DEBUG,
          RACE_LIVE_POSTED_SIGS, tasks, threads, sup, starts, reply, polls, cmds, budget, killed,
          ticks, sups>>

\* ------------------------------------------------------------------- tasks
\* task.done()
TaskDone(t) == tasks[t].pc = "done"

\* a registry in which no follower ever counts as running
RunningNever(reg, gid) == FALSE

\* a registry in which a follower counts as running once it is registered,
\* ended or not
RunningRegistered(reg, gid) == gid \in DOMAIN reg

\* "task is not None and not task.done()" for the task the registry holds
Running(reg, gid) == gid \in DOMAIN reg /\ ~TaskDone(reg[gid])

\* a start that puts every follower on the first destination
NewTaskReusing(gid, origin, thread, sk) ==
    [gid |-> gid, origin |-> origin, thread |-> 1, session_key |-> sk,
     pc |-> "created", cancel |-> FALSE, rc |-> <<>>, i |-> 0,
     got |-> [s \in {} |-> 0]]

\* bot.loop.create_task(runner()): the coroutine has not run yet
NewTask(gid, origin, thread, sk) ==
    [gid |-> gid, origin |-> origin, thread |-> thread, session_key |-> sk,
     pc |-> "created", cancel |-> FALSE, rc |-> <<>>, i |-> 0,
     got |-> [s \in {} |-> 0]]

\* task.cancel() on a task that is not done: CancelledError is thrown into it
\* at the await it is suspended at
CancelTask(ts, t) == [ts EXCEPT ![t].cancel = TRUE]

\* the task has ended (returned, or raised into its runner)
Finish(ts, t) == [ts EXCEPT ![t].pc = "done", ![t].rc = <<>>, ![t].i = 0]

\* _ensure_live_thread succeeded: a new destination of the guild
NewThread(gid) == [gid |-> gid, posts |-> <<>>]

\* The event loop runs what is ready before it looks at the outside world
\* again: a task just created, or one with a cancellation to take, steps
\* before any later timer, response or command is handled.
Ready(t) == ~TaskDone(t) /\ (tasks[t].cancel \/ tasks[t].pc = "created")

NoneReady == \A t \in DOMAIN tasks : ~Ready(t)

\* task t may take its step now
Scheduled(t) == Ready(t) \/ NoneReady

\* ---------------------------------------------------------------- follower
\* a follower that takes every signature for new
IsNewSigAlways(sigs, sig) == TRUE

\* "if sig in sigs: continue"
IsNewSig(sigs, sig) == sig \notin sigs

\* a follower that forgets to record the signature
SigsAddDropped(posted, gid, sig) == posted

\* "sigs.add(sig)" on the guild's set
SigsAdd(posted, gid, sig) == [posted EXCEPT ![gid] = @ \cup {sig}]

\* a for loop over the whole response
BatchSliceAll(rc) == rc

\* "for item in rc[-30:]"
BatchSlice(rc) == LastN(rc, LAST_ITEMS)

\* "while RACE_LIVE_ENABLED.get(gid, False)"
LoopEnabled(enabled, gid) == DictGet(enabled, gid, FALSE)

\* "if not msg: continue"
Skipped(item) == ItemMsg(item) = <<>>

\* the first position from `from` on at which the for loop does not just
\* continue: an element that is not an object (item.get raises) or an
\* item whose signature is new; 0 when the loop runs to its end
NextStop(slice, from, sigs) ==
    LET stops == {j \in from..Len(slice) :
                    \/ ~slice[j].isdict
                    \/ (~Skipped(slice[j]) /\ IsNewSig(sigs, Sig(slice[j])))}
    IN  IF stops = {} THEN 0 ELSE CHOOSE j \in stops : \A k \in stops : j <= k

\* the signatures a response carries
BatchSigs(rc) == {Sig(rc[j]) : j \in {k \in DOMAIN rc : rc[k].isdict /\ ~Skipped(rc[k])}}

\* in how many responses to this task a signature has come so far (2: twice or more)
GotAfter(got, rc) ==
    [s \in (DOMAIN got) \cup BatchSigs(rc) |->
        IF s \in BatchSigs(rc) THEN Min(2, DictGet(got, s, 0) + 1) ELSE got[s]]

\* a follower that takes the key of the latest session again at every poll
LoopTopRetargets(t, ts, dbg) ==
    LET gid == tasks[t].gid
    IN  IF LoopEnabled(RACE_LIVE_ENABLED, gid)
        THEN /\ RACE_LIVE_DEBUG' = Racelog(dbg, gid, Line("poll race_control", 0))
             /\ tasks' = [ts EXCEPT ![t].pc = "fetch", ![t].session_key = S_Race.session_key]
        ELSE /\ RACE_LIVE_DEBUG' = Racelog(dbg, gid, Line("race_live_loop exited", 0))
             /\ tasks' = Finish(ts, t)

\* the top of the while loop, after ts and dbg were computed by the step
LoopTop(t, ts, dbg) ==
    LET gid == tasks[t].gid
    IN  IF LoopEnabled(RACE_LIVE_ENABLED, gid)
        THEN /\ RACE_LIVE_DEBUG' = Racelog(dbg, gid, Line("poll race_control", 0))
             /\ tasks' = [ts EXCEPT ![t].pc = "fetch"]
        ELSE /\ RACE_LIVE_DEBUG' = Racelog(dbg, gid, Line("race_live_loop exited", 0))
             /\ tasks' = Finish(ts, t)

\* the for loop over the slice from position `from`, up to its next await
\* (the send of a new item), its exception, or its end (the poll sleep)
ForLoop(t, ts, dbg, slice, from) ==
    LET gid == tasks[t].gid
        sigs == RACE_LIVE_POSTED_SIGS[gid]
        j == NextStop(slice, from, sigs)
    IN  IF j = 0
        THEN /\ tasks' = [ts EXCEPT ![t].pc = "sleep", ![t].rc = <<>>, ![t].i = 0]
             /\ RACE_LIVE_DEBUG' = dbg
             /\ UNCHANGED RACE_LIVE_POSTED_SIGS
        ELSE IF ~slice[j].isdict
        THEN /\ tasks' = [ts EXCEPT ![t].pc = "backoff", ![t].rc = <<>>, ![t].i = 0]
             /\ RACE_LIVE_DEBUG' = Racelog(dbg, gid, Line("ERROR AttributeError", 0))
             /\ UNCHANGED RACE_LIVE_POSTED_SIGS
        ELSE /\ tasks' = [ts EXCEPT ![t].pc = "send", ![t].rc = slice, ![t].i = j]
             /\ RACE_LIVE_DEBUG' = dbg
             /\ RACE_LIVE_POSTED_SIGS' = SigsAdd(RACE_LIVE_POSTED_SIGS, gid, Sig(slice[j]))

\* a follower that begins with an empty signature set of its own
TaskStartFreshSigs(t) ==
    /\ tasks[t].pc = "created"
    /\ Scheduled(t)
    /\ LET gid == tasks[t].gid
       IN  IF tasks[t].cancel
           THEN /\ tasks' = Finish(tasks, t)
                /\ UNCHANGED <<RACE_LIVE_ENABLED, RACE_LIVE_POSTED_SIGS, RACE_LIVE_DEBUG>>
           ELSE /\ RACE_LIVE_ENABLED' = DictSet(RACE_LIVE_ENABLED, gid, TRUE)
                /\ RACE_LIVE_POSTED_SIGS' = DictSet(RACE_LIVE_POSTED_SIGS, gid, {})
                /\ RACE_LIVE_DEBUG' = Racelog(RACE_LIVE_DEBUG, gid,
                                        Line("race_live_loop started", tasks[t].session_key))
                /\ tasks' = [tasks EXCEPT ![t].pc = "attach"]
    /\ UNCHANGED <<sups, budget, killed, ticks, guilds, RACE_LIVE_TASKS, threads, sup, starts, reply, polls, cmds>>

\* the first step of the task: runner() enters race_live_loop up to its first
\* await (lines 1098-1106); a task cancelled before it ever ran does not run
TaskStart(t) ==
    /\ tasks[t].pc = "created"
    /\ Scheduled(t)
    /\ LET gid == tasks[t].gid
       IN  IF tasks[t].cancel
           THEN /\ tasks' = Finish(tasks, t)
                /\ UNCHANGED <<RACE_LIVE_ENABLED, RACE_LIVE_POSTED_SIGS, RACE_LIVE_DEBUG>>
           ELSE /\ RACE_LIVE_ENABLED' = DictSet(RACE_LIVE_ENABLED, gid, TRUE)
                /\ RACE_LIVE_POSTED_SIGS' = DictSetDefault(RACE_LIVE_POSTED_SIGS, gid, {})
                /\ RACE_LIVE_DEBUG' = Racelog(RACE_LIVE_DEBUG, gid,
                                        Line("race_live_loop started", tasks[t].session_key))
                /\ tasks' = [tasks EXCEPT ![t].pc = "attach"]
    /\ UNCHANGED <<sups, budget, killed, ticks, guilds, RACE_LIVE_TASKS, threads, sup, starts, reply, polls, cmds>>

\* "await thread.send(Live follower attached)" returns, raises or is cancelled
AttachDone(t) ==
    /\ tasks[t].pc = "attach"
    /\ Scheduled(t)
    /\ \/ /\ tasks[t].cancel
          /\ tasks' = Finish(tasks, t)
          /\ UNCHANGED RACE_LIVE_DEBUG
       \/ /\ ~tasks[t].cancel
          /\ LoopTop(t, tasks, RACE_LIVE_DEBUG)
       \/ /\ ~tasks[t].cancel
          /\ RACE_LIVE_DEBUG' = Racelog(RACE_LIVE_DEBUG, tasks[t].gid, Line("FATAL", 0))
          /\ tasks' = Finish(tasks, t)
    /\ UNCHANGED <<sups, budget, killed, ticks, guilds, RACE_LIVE_TASKS, RACE_LIVE_ENABLED, RACE_LIVE_POSTED_SIGS,
                   threads, sup, starts, reply, polls, cmds>>

\* an _openf1_get that treats 401 and 403 like any other error status
OpenF1GetNoAuth(status) ==
    IF status >= 400 THEN [exc |-> "ClientError", status |-> 0]
    ELSE [exc |-> "none", status |-> 0]

\* _openf1_get on a response of that status: 401 and 403 raise RuntimeError
\* ("OpenF1 auth error {status}: ..."), any other error status raises from
\* raise_for_status (a ClientResponseError, which is a ClientError, as are the
\* failures without a response), otherwise the JSON is returned
OpenF1Get(status) ==
    IF status \in {401, 403} THEN [exc |-> "RuntimeError", status |-> status]
    ELSE IF status >= 400 THEN [exc |-> "ClientError", status |-> 0]
    ELSE [exc |-> "none", status |-> 0]

\* _racelog(gid, f"ERROR {type(e).__name__}: {e}") for what _openf1_get raised
ErrorLine(e) ==
    IF e.exc = "RuntimeError" THEN Line("ERROR RuntimeError", e.status)
    ELSE Line("ERROR ClientError", 0)

\* "rc = await _openf1_get(race_control)" answers, raises or is cancelled
FetchDone(t) ==
    /\ tasks[t].pc = "fetch"
    /\ Scheduled(t)
    /\ LET gid == tasks[t].gid
       IN  \/ /\ tasks[t].cancel
              /\ RACE_LIVE_DEBUG' = Racelog(RACE_LIVE_DEBUG, gid,
                                      Line("race_live_loop cancelled", 0))
              /\ tasks' = Finish(tasks, t)
              /\ UNCHANGED <<RACE_LIVE_POSTED_SIGS, polls>>
           \/ /\ ~tasks[t].cancel
              /\ polls < budget.polls
              /\ polls' = polls + 1
              /\ \E rc \in Batches(budget.batch) \cup budget.feed :
                    ForLoop(t, [tasks EXCEPT ![t].got = GotAfter(@, rc)],
                            Racelog(RACE_LIVE_DEBUG, gid, Line("race_control items", Len(rc))),
                            BatchSlice(rc), 1)
           \/ /\ ~tasks[t].cancel
              /\ polls < budget.polls
              /\ polls' = polls + 1
              /\ \E status \in budget.statuses :
                    RACE_LIVE_DEBUG' = Racelog(RACE_LIVE_DEBUG, gid,
                                              ErrorLine(OpenF1Get(status)))
              /\ tasks' = [tasks EXCEPT ![t].pc = "backoff"]
              /\ UNCHANGED RACE_LIVE_POSTED_SIGS
    /\ UNCHANGED <<sups, budget, killed, ticks, guilds, RACE_LIVE_TASKS, RACE_LIVE_ENABLED, threads, sup, starts,
                   reply, cmds>>

\* the destination shows one more relayed item
Relay(ths, th, item) == [ths EXCEPT ![th].posts = Append(@, Post(item))]

\* a follower that forgets the signature of an item whose send failed
SendDoneForgets(t) ==
    /\ tasks[t].pc = "send"
    /\ Scheduled(t)
    /\ LET gid == tasks[t].gid
           item == tasks[t].rc[tasks[t].i]
       IN  \/ /\ tasks[t].cancel
              /\ RACE_LIVE_DEBUG' = Racelog(RACE_LIVE_DEBUG, gid,
                                      Line("race_live_loop cancelled", 0))
              /\ tasks' = Finish(tasks, t)
              /\ \/ UNCHANGED threads
                 \/ threads' = Relay(threads, tasks[t].thread, item)
              /\ UNCHANGED RACE_LIVE_POSTED_SIGS
           \/ /\ ~tasks[t].cancel
              /\ threads' = Relay(threads, tasks[t].thread, item)
              /\ ForLoop(t, tasks, RACE_LIVE_DEBUG, tasks[t].rc, tasks[t].i + 1)
           \/ /\ ~tasks[t].cancel
              /\ RACE_LIVE_DEBUG' = Racelog(RACE_LIVE_DEBUG, gid, Line("ERROR HTTPException", 0))
              /\ tasks' = [tasks EXCEPT ![t].pc = "backoff", ![t].rc = <<>>, ![t].i = 0]
              /\ RACE_LIVE_POSTED_SIGS' =
                    [RACE_LIVE_POSTED_SIGS EXCEPT ![gid] = @ \ {Sig(item)}]
              /\ UNCHANGED threads
    /\ UNCHANGED <<sups, budget, killed, ticks, guilds, RACE_LIVE_TASKS, RACE_LIVE_ENABLED, sup, starts, reply,
                   polls, cmds>>

\* "await thread.send(msg)" of the for loop returns, raises or is cancelled; a
\* cancelled send may or may not have reached the destination
SendDone(t) ==
    /\ tasks[t].pc = "send"
    /\ Scheduled(t)
    /\ LET gid == tasks[t].gid
           item == tasks[t].rc[tasks[t].i]
       IN  \/ /\ tasks[t].cancel
              /\ RACE_LIVE_DEBUG' = Racelog(RACE_LIVE_DEBUG, gid,
                                      Line("race_live_loop cancelled", 0))
              /\ tasks' = Finish(tasks, t)
              /\ \/ UNCHANGED threads
                 \/ threads' = Relay(threads, tasks[t].thread, item)
              /\ UNCHANGED RACE_LIVE_POSTED_SIGS
           \/ /\ ~tasks[t].cancel
              /\ threads' = Relay(threads, tasks[t].thread, item)
              /\ ForLoop(t, tasks, RACE_LIVE_DEBUG, tasks[t].rc, tasks[t].i + 1)
           \/ /\ ~tasks[t].cancel
              /\ RACE_LIVE_DEBUG' = Racelog(RACE_LIVE_DEBUG, gid, Line("ERROR HTTPException", 0))
              /\ tasks' = [tasks EXCEPT ![t].pc = "backoff", ![t].rc = <<>>, ![t].i = 0]
              /\ UNCHANGED <<threads, RACE_LIVE_POSTED_SIGS>>
    /\ UNCHANGED <<sups, budget, killed, ticks, guilds, RACE_LIVE_TASKS, RACE_LIVE_ENABLED, sup, starts, reply,
                   polls, cmds>>

\* "await asyncio.sleep(poll_s)" ends or is cancelled
SleepDone(t) ==
    /\ tasks[t].pc = "sleep"
    /\ Scheduled(t)
    /\ IF tasks[t].cancel
       THEN /\ RACE_LIVE_DEBUG' = Racelog(RACE_LIVE_DEBUG, tasks[t].gid,
                                    Line("race_live_loop cancelled", 0))
            /\ tasks' = Finish(tasks, t)
       ELSE LoopTop(t, tasks, RACE_LIVE_DEBUG)
    /\ UNCHANGED <<sups, budget, killed, ticks, guilds, RACE_LIVE_TASKS, RACE_LIVE_ENABLED, RACE_LIVE_POSTED_SIGS,
                   threads, sup, starts, reply, polls, cmds>>

\* a follower that gives up after an error: its backoff sleep ends the task
BackoffExits(t) ==
    /\ tasks[t].pc = "backoff"
    /\ Scheduled(t)
    /\ tasks' = Finish(tasks, t)
    /\ UNCHANGED <<sups, budget, killed, ticks, guilds, RACE_LIVE_TASKS, RACE_LIVE_ENABLED,
                   RACE_LIVE_DEBUG, RACE_LIVE_POSTED_SIGS, threads, sup, starts, reply, polls,
                   cmds>>

\* "await asyncio.sleep(5)" of the except clause ends or is cancelled; the
\* CancelledError raised inside the except clause is not logged
BackoffDone(t) ==
    /\ tasks[t].pc = "backoff"
    /\ Scheduled(t)
    /\ IF tasks[t].cancel
       THEN /\ tasks' = Finish(tasks, t)
            /\ UNCHANGED RACE_LIVE_DEBUG
       ELSE LoopTop(t, tasks, RACE_LIVE_DEBUG)
    /\ UNCHANGED <<sups, budget, killed, ticks, guilds, RACE_LIVE_TASKS, RACE_LIVE_ENABLED, RACE_LIVE_POSTED_SIGS,
                   threads, sup, starts, reply, polls, cmds>>

\* "60 if in_window" (line 1192) and "await asyncio.sleep(60)" of the except
\* clause (line 1196), in seconds
ACTIVE_S == 60

ERROR_S == 60

\* OPENF1_IDLE_CHECK_SECONDS when the environment does not set it, and the
\* bounds it is clamped to (lines 1142-1143)
IDLE_DEFAULT == 1800

IDLE_MIN == 60

IDLE_MAX == 10800

idle_s == Max(IDLE_MIN, Min(IDLE_MAX, IDLE_DEFAULT))

\* how long the supervisor sleeps in the sleep of that name (0: the task has
\* not run yet)
SleepSeconds(sleep) ==
    CASE sleep = "active" -> ACTIVE_S
      [] sleep = "error" -> ERROR_S
      [] sleep = "idle" -> idle_s
      [] OTHER -> 0

\* -------------------------------------------------------------- supervisor
\* bot.guilds as the list the for loop walks
RECURSIVE SetToSeq(_)
SetToSeq(S) ==
    IF S = {} THEN <<>>
    ELSE LET m == CHOOSE x \in S : \A y \in S : x <= y
         IN  <<m>> \o SetToSeq(S \ {m})

\* lines 1148-1162 of one cycle: what the resolver gave and what the
\* supervisor derives from it before it walks the guilds
SupOutcome(latest, all_sessions, pad_hours, now) ==
    LET info == PickWindow(latest, all_sessions, pad_hours)
    IN  IF info.kind # "window"
        THEN [kind |-> info.kind, in_window |-> FALSE, ended |-> FALSE, session_key |-> 0]
        ELSE LET sk == LatestRelevant(info.relevant).session_key
             IN  IF sk = 0
                 THEN [kind |-> "raise", in_window |-> FALSE, ended |-> FALSE,
                       session_key |-> 0]
                 ELSE [kind |-> "window",
                       in_window |-> (info.window_start <= now /\ now <= info.window_end),
                       ended |-> (now > info.window_end),
                       session_key |-> sk]

\* every outcome of a cycle's resolver call: a request that raises, or the
\* outcome of some answer at some time
SupOutcomes ==
    {[kind |-> "raise", in_window |-> FALSE, ended |-> FALSE, session_key |-> 0]} \cup
    {SupOutcome(l, a, p, n) : l \in Latests, a \in SiblingLists, p \in PadHours, n \in Times}

\* a supervisor that starts a follower on every tick inside the window
SupStartsAlways(in_window, running) == in_window

\* "if in_window and not running" (line 1169)
SupStarts(in_window, running) == in_window /\ ~running

\* a supervisor that stops nothing
SupStopsNever(in_window, running) == FALSE

\* "if (not in_window) and running" (line 1187)
SupStops(in_window, running) == (~in_window) /\ running

\* the for loop over the guilds from the list todo on, up to the await of
\* _ensure_live_thread for a guild to start (await = that guild) or to the
\* end of the list (await = 0); st carries the dictionaries and the tasks
RECURSIVE SupGuildLoop(_, _, _)
SupGuildLoop(todo, in_window, st) ==
    IF todo = <<>> THEN [st EXCEPT !.await = 0, !.todo = <<>>]
    ELSE LET gid == Head(todo)
             running == Running(st.reg, gid)
         IN  IF SupStarts(in_window, running)
             THEN [st EXCEPT !.await = gid, !.todo = Tail(todo)]
             ELSE IF SupStops(in_window, running)
             THEN SupGuildLoop(Tail(todo), in_window,
                    [st EXCEPT
                       !.dbg = Racelog(@, gid, Line("Supervisor stopping live loop", 0)),
                       !.en = DictSet(@, gid, FALSE),
                       !.ts = CancelTask(@, st.reg[gid])])
             ELSE SupGuildLoop(Tail(todo), in_window, st)

\* a supervisor that takes the idle sleep after every cycle
CycleSleepIdle(in_window) == "idle"

\* "await asyncio.sleep(60 if in_window else idle_s)"
CycleSleep(in_window) == IF in_window THEN "active" ELSE "idle"

\* a supervisor whose every sleep is the 60 s one
SupAsleepActive(sleep) ==
    [pc |-> "sleep", sleep |-> "active", in_window |-> FALSE, session_key |-> 0,
     gid |-> 0, todo |-> <<>>]

\* the supervisor in one of its sleeps: at the end of a cycle ("active": 60 s,
\* "idle": idle_s), in the except clause ("error": 60 s), or not yet started
SupAsleep(sleep) ==
    [pc |-> "sleep", sleep |-> sleep, in_window |-> FALSE, session_key |-> 0,
     gid |-> 0, todo |-> <<>>]

\* the primed state after the guild loop stopped at r
SupAfterLoop(r, in_window, sk) ==
    /\ RACE_LIVE_TASKS' = r.reg
    /\ RACE_LIVE_ENABLED' = r.en
    /\ RACE_LIVE_DEBUG' = r.dbg
    /\ tasks' = r.ts
    /\ sup' = IF r.await # 0
              THEN [pc |-> "ensure", sleep |-> "none", in_window |-> in_window,
                    session_key |-> sk, gid |-> r.await, todo |-> r.todo]
              ELSE SupAsleep(CycleSleep(in_window))

\* the history of cycles once the supervisor is in state s: a cycle that has
\* reached its sleep is noted with what the resolver gave and the sleep taken
TicksAfter(kind, s) ==
    IF s.pc = "sleep" /\ Len(ticks) < budget.ticks
    THEN Append(ticks, [kind |-> kind, sleep |-> s.sleep])
    ELSE ticks

\* a sleep ends and one cycle runs with the resolver outcome o: lines
\* 1148-1162, then the guild loop up to its first await or its end
SupCycleOn(o) ==
    /\ sup.pc = "sleep"
    /\ NoneReady
    /\ \/ /\ o.kind = "raise"
          /\ sup' = SupAsleep("error")
          /\ UNCHANGED <<RACE_LIVE_TASKS, RACE_LIVE_ENABLED, RACE_LIVE_DEBUG, tasks>>
       \/ /\ o.kind = "none"
          /\ sup' = SupAsleep("idle")
          /\ UNCHANGED <<RACE_LIVE_TASKS, RACE_LIVE_ENABLED, RACE_LIVE_DEBUG, tasks>>
       \/ /\ o.kind = "window"
          /\ SupAfterLoop(
               SupGuildLoop(SetToSeq(guilds), o.in_window,
                            [reg |-> RACE_LIVE_TASKS, en |-> RACE_LIVE_ENABLED,
                             dbg |-> RACE_LIVE_DEBUG, ts |-> tasks,
                             await |-> 0, todo |-> <<>>]),
               o.in_window, o.session_key)
    /\ ticks' = TicksAfter(o.kind, sup')
    /\ UNCHANGED <<sups, budget, killed, guilds, RACE_LIVE_POSTED_SIGS, threads, starts, reply, polls, cmds>>

SupCycle == \E o \in SupOutcomes : SupCycleOn(o)

\* "thread = await _ensure_live_thread(guild, title)" of the supervisor returns
\* a new thread (lines 1174-1185 run, then the loop goes on) or raises (the
\* cycle ends in the except clause)
SupEnsureDone ==
    /\ sup.pc = "ensure"
    /\ NoneReady
    /\ \/ /\ Len(tasks) < budget.tasks
          /\ LET gid == sup.gid
                 th == Len(threads) + 1
                 t == Len(tasks) + 1
             IN  /\ threads' = Append(threads, NewThread(gid))
                 /\ SupAfterLoop(
                      SupGuildLoop(sup.todo, sup.in_window,
                        [reg |-> DictSet(RACE_LIVE_TASKS, gid, t),
                         en |-> DictSet(RACE_LIVE_ENABLED, gid, TRUE),
                         dbg |-> Racelog(RACE_LIVE_DEBUG, gid,
                                   Line("Supervisor starting live loop", sup.session_key)),
                         ts |-> Append(tasks, NewTask(gid, "supervisor", th, sup.session_key)),
                         await |-> 0, todo |-> <<>>]),
                      sup.in_window, sup.session_key)
       \/ /\ sup' = SupAsleep("error")
          /\ UNCHANGED <<RACE_LIVE_TASKS, RACE_LIVE_ENABLED, RACE_LIVE_DEBUG, tasks, threads>>
    /\ ticks' = TicksAfter("window", sup')
    /\ UNCHANGED <<sups, budget, killed, guilds, RACE_LIVE_POSTED_SIGS, starts, reply, polls, cmds>>

\* ---------------------------------------------------------------- commands
\* n: the number of the command that answered (0: a racelivestart, which
\* answers after its awaits)
NoReply == [op |-> "none", gid |-> 0, tail |-> <<>>, n |-> 0]

\* "t = RACE_LIVE_TASKS.get(gid); if t and not t.done(): t.cancel()"
CancelIfRunning(reg, ts, gid) ==
    IF Running(reg, gid) THEN CancelTask(ts, reg[gid]) ELSE ts

\* a kill switch that also writes a line to the debug trail
KillLogging(gid) ==
    /\ NoneReady
    /\ cmds < budget.cmds
    /\ cmds' = cmds + 1
    /\ RACE_LIVE_ENABLED' = DictSet(RACE_LIVE_ENABLED, gid, FALSE)
    /\ tasks' = CancelIfRunning(RACE_LIVE_TASKS, tasks, gid)
    /\ RACE_LIVE_DEBUG' = Racelog(RACE_LIVE_DEBUG, gid, Line("KILL SWITCH", 0))
    /\ reply' = [op |-> "kill", gid |-> gid,
                 tail |-> Racetail(RACE_LIVE_DEBUG, gid, KILL_TAIL_LINES), n |-> cmds']
    /\ UNCHANGED <<sups, budget, killed, ticks, guilds, RACE_LIVE_TASKS, RACE_LIVE_POSTED_SIGS,
                   threads, sup, starts, polls>>

\* racelivekill: the whole command up to its answer
Kill(gid) ==
    /\ NoneReady
    /\ cmds < budget.cmds
    /\ cmds' = cmds + 1
    /\ RACE_LIVE_ENABLED' = DictSet(RACE_LIVE_ENABLED, gid, FALSE)
    /\ tasks' = CancelIfRunning(RACE_LIVE_TASKS, tasks, gid)
    /\ reply' = [op |-> "kill", gid |-> gid,
                 tail |-> Racetail(RACE_LIVE_DEBUG, gid, KILL_TAIL_LINES), n |-> cmds']
    /\ killed' = killed \cup {t \in DOMAIN tasks :
                                /\ tasks[t].gid = gid
                                /\ tasks[t].pc \in {"sleep", "backoff", "fetch"}}
    /\ UNCHANGED <<sups, budget, ticks, guilds, RACE_LIVE_TASKS, RACE_LIVE_DEBUG, RACE_LIVE_POSTED_SIGS,
                   threads, sup, starts, polls>>

\* a racelivetail that passes the count on as it was asked
TailClampNone(lines) == lines

\* "lines = max(1, min(50, int(lines)))"
TailClamp(lines) == Max(TAIL_MIN, Min(TAIL_MAX, lines))

\* the line counts an administrator may ask racelivetail for
TailLines == {0, 2}

\* racelivetail: the whole command up to its answer; the answer records the
\* count that was asked for
RaceLiveTail(gid, lines) ==
    /\ NoneReady
    /\ cmds < budget.cmds
    /\ cmds' = cmds + 1
    /\ reply' = [op |-> "tail", gid |-> gid,
                 tail |-> Racetail(RACE_LIVE_DEBUG, gid, TailClamp(lines)),
                 n |-> cmds', lines |-> lines]
    /\ UNCHANGED <<sups, budget, killed, ticks, guilds, RACE_LIVE_TASKS, RACE_LIVE_ENABLED, RACE_LIVE_DEBUG,
                   RACE_LIVE_POSTED_SIGS, tasks, threads, sup, starts, polls>>

\* racelivestop: the whole command up to its answer
Stop(gid) ==
    /\ NoneReady
    /\ cmds < budget.cmds
    /\ cmds' = cmds + 1
    /\ RACE_LIVE_ENABLED' = DictSet(RACE_LIVE_ENABLED, gid, FALSE)
    /\ tasks' = CancelIfRunning(RACE_LIVE_TASKS, tasks, gid)
    /\ reply' = [op |-> "stop", gid |-> gid, tail |-> <<>>, n |-> cmds']
    /\ UNCHANGED <<sups, budget, killed, ticks, guilds, RACE_LIVE_TASKS, RACE_LIVE_DEBUG, RACE_LIVE_POSTED_SIGS,
                   threads, sup, starts, polls>>

\* a racelivestart that leaves the running follower alone until it has a
\* session and a destination
StartBeginKeeps(gid) ==
    /\ NoneReady
    /\ cmds < budget.cmds
    /\ cmds' = cmds + 1
    /\ starts' = Append(starts, [gid |-> gid, pc |-> "latest", session_key |-> 0])
    /\ UNCHANGED <<sups, budget, killed, ticks, guilds, RACE_LIVE_TASKS, RACE_LIVE_ENABLED,
                   RACE_LIVE_DEBUG, RACE_LIVE_POSTED_SIGS, tasks, threads, sup, reply, polls>>

\* racelivestart up to its first await (lines 1236-1242): a running follower
\* is disabled and cancelled, then the latest session is requested
StartBegin(gid) ==
    /\ NoneReady
    /\ cmds < budget.cmds
    /\ cmds' = cmds + 1
    /\ RACE_LIVE_ENABLED' = IF Running(RACE_LIVE_TASKS, gid)
                            THEN DictSet(RACE_LIVE_ENABLED, gid, FALSE)
                            ELSE RACE_LIVE_ENABLED
    /\ tasks' = CancelIfRunning(RACE_LIVE_TASKS, tasks, gid)
    /\ starts' = Append(starts, [gid |-> gid, pc |-> "latest", session_key |-> 0])
    /\ UNCHANGED <<sups, budget, killed, ticks, guilds, RACE_LIVE_TASKS, RACE_LIVE_DEBUG, RACE_LIVE_POSTED_SIGS,
                   threads, sup, reply, polls>>

\* "latest = await _openf1_get(sessions, latest)" of racelivestart answers or
\* raises (lines 1242-1248)
StartLatestDone(k) ==
    /\ starts[k].pc = "latest"
    /\ NoneReady
    /\ \/ /\ starts' = [starts EXCEPT ![k].pc = "done"]
          /\ UNCHANGED reply
       \/ \E latest \in Latests :
             IF latest = <<>>
             THEN /\ starts' = [starts EXCEPT ![k].pc = "done"]
                  /\ reply' = [op |-> "start: no sessions", gid |-> starts[k].gid,
                               tail |-> <<>>, n |-> 0]
             ELSE /\ starts' = [starts EXCEPT ![k].pc = "ensure",
                                              ![k].session_key = latest[1].session_key]
                  /\ UNCHANGED reply
    /\ UNCHANGED <<sups, budget, killed, ticks, guilds, RACE_LIVE_TASKS, RACE_LIVE_ENABLED, RACE_LIVE_DEBUG,
                   RACE_LIVE_POSTED_SIGS, tasks, threads, sup, polls, cmds>>

\* "thread = await _ensure_live_thread(guild, title)" of racelivestart returns
\* a new thread (lines 1250-1261 run) or raises
StartEnsureDone(k) ==
    /\ starts[k].pc = "ensure"
    /\ NoneReady
    /\ LET gid == starts[k].gid
           th == Len(threads) + 1
           t == Len(tasks) + 1
       IN  \/ /\ Len(tasks) < budget.tasks
              /\ threads' = Append(threads, NewThread(gid))
              /\ RACE_LIVE_ENABLED' = DictSet(RACE_LIVE_ENABLED, gid, TRUE)
              /\ tasks' = Append(tasks, NewTask(gid, "manual", th, starts[k].session_key))
              /\ RACE_LIVE_TASKS' = DictSet(RACE_LIVE_TASKS, gid, t)
              /\ starts' = [starts EXCEPT ![k].pc = "done"]
              /\ reply' = [op |-> "start: started", gid |-> gid, tail |-> <<>>, n |-> 0]
           \/ /\ starts' = [starts EXCEPT ![k].pc = "done"]
              /\ UNCHANGED <<threads, RACE_LIVE_ENABLED, tasks, RACE_LIVE_TASKS, reply>>
    /\ UNCHANGED <<sups, budget, killed, ticks, guilds, RACE_LIVE_DEBUG, RACE_LIVE_POSTED_SIGS, sup, polls, cmds>>

\* ------------------------------------------------------------ specification
\* on_ready has just created the supervisor task; nothing else has run
Boot ==
    /\ guilds = GuildIds
    /\ RACE_LIVE_TASKS = EmptyDict
    /\ RACE_LIVE_ENABLED = EmptyDict
    /\ RACE_LIVE_DEBUG = EmptyDict
    /\ RACE_LIVE_POSTED_SIGS = EmptyDict
    /\ tasks = <<>>
    /\ threads = <<>>
    /\ sup = SupAsleep("ready")
    /\ starts = <<>>
    /\ reply = NoReply
    /\ polls = 0
    /\ cmds = 0
    /\ killed = {}
    /\ ticks = <<>>
    /\ sups = 1

Init ==
    /\ Boot
    /\ budget = [tasks |-> MaxTasks, polls |-> MaxPolls, cmds |-> MaxCmds,
                 batch |-> MaxBatch, ticks |-> 0, statuses |-> {500},
                 feed |-> {}]

InitFeed ==
    /\ Boot
    /\ budget = [tasks |-> FeedTasks, polls |-> FeedPolls, cmds |-> FeedCmds,
                 batch |-> FeedBatch, ticks |-> 0, statuses |-> {500},
                 feed |-> {}]

InitCmds ==
    /\ Boot
    /\ budget = [tasks |-> CmdsTasks, polls |-> CmdsPolls, cmds |-> CmdsCmds,
                 batch |-> CmdsBatch, ticks |-> 0, statuses |-> {500},
                 feed |-> {}]

Next ==
    \/ SupCycle
    \/ SupEnsureDone
    \/ \E t \in DOMAIN tasks : TaskStart(t)
    \/ \E t \in DOMAIN tasks : AttachDone(t)
    \/ \E t \in DOMAIN tasks : FetchDone(t)
    \/ \E t \in DOMAIN tasks : SendDone(t)
    \/ \E t \in DOMAIN tasks : SleepDone(t)
    \/ \E t \in DOMAIN tasks : BackoffDone(t)
    \/ \E gid \in guilds : Kill(gid)
    \/ \E gid \in guilds : Stop(gid)
    \/ \E gid \in guilds, lines \in TailLines : RaceLiveTail(gid, lines)
    \/ \E gid \in guilds : StartBegin(gid)
    \/ \E k \in DOMAIN starts : StartLatestDone(k)
    \/ \E k \in DOMAIN starts : StartEnsureDone(k)

Spec == Init /\ [][Next]_vars

SpecFeed == InitFeed /\ [][Next]_vars

\* the runs with two commands leave racelivetail out: it reads the trail and
\* changes nothing but its own answer
NextCmds ==
    \/ SupCycle
    \/ SupEnsureDone
    \/ \E t \in DOMAIN tasks : TaskStart(t)
    \/ \E t \in DOMAIN tasks : AttachDone(t)
    \/ \E t \in DOMAIN tasks : FetchDone(t)
    \/ \E t \in DOMAIN tasks : SendDone(t)
    \/ \E t \in DOMAIN tasks : SleepDone(t)
    \/ \E t \in DOMAIN tasks : BackoffDone(t)
    \/ \E gid \in guilds : Kill(gid)
    \/ \E gid \in guilds : Stop(gid)
    \/ \E gid \in guilds : StartBegin(gid)
    \/ \E k \in DOMAIN starts : StartLatestDone(k)
    \/ \E k \in DOMAIN starts : StartEnsureDone(k)

SpecCmds == InitCmds /\ [][NextCmds]_vars

\* ------------------------------------ the supervisor without administrator
\* SpecSup, the runs in which no command is given: follower tasks ever
\* created, feed responses, longest response, supervisor cycles noted
SupTasks == 1
SupPolls == 1
SupBatch == 1
SupTicks == 4

\* bot.guilds in those runs: the bot is in no guild, or in two
SupGuildSets == {{}, {1, 2}}

InitSup ==
    /\ guilds \in SupGuildSets
    /\ RACE_LIVE_TASKS = EmptyDict
    /\ RACE_LIVE_ENABLED = EmptyDict
    /\ RACE_LIVE_DEBUG = EmptyDict
    /\ RACE_LIVE_POSTED_SIGS = EmptyDict
    /\ tasks = <<>>
    /\ threads = <<>>
    /\ sup = SupAsleep("ready")
    /\ starts = <<>>
    /\ reply = NoReply
    /\ polls = 0
    /\ cmds = 0
    /\ killed = {}
    /\ ticks = <<>>
    /\ sups = 1
    /\ budget = [tasks |-> SupTasks, polls |-> SupPolls, cmds |-> 0,
                 batch |-> SupBatch, ticks |-> SupTicks, statuses |-> {500},
                 feed |-> {}]

NextSup ==
    \/ SupCycle
    \/ SupEnsureDone
    \/ \E t \in DOMAIN tasks : TaskStart(t)
    \/ \E t \in DOMAIN tasks : AttachDone(t)
    \/ \E t \in DOMAIN tasks : FetchDone(t)
    \/ \E t \in DOMAIN tasks : SendDone(t)
    \/ \E t \in DOMAIN tasks : SleepDone(t)
    \/ \E t \in DOMAIN tasks : BackoffDone(t)

SpecSup == InitSup /\ [][NextSup]_vars

\* ------------------------------------------ the window resolver on its own
\* what the sessions endpoint may answer in the resolver runs: a followed
\* session without an end, a followed session whose start does not parse
S_SprintNoEnd == Session(4, 7, "SPRINT", "", 300, 0)

S_RaceBadStart == Session(5, 7, "Race", "", -1, 900)

\* a followed session that has no start yet
S_QualiNoStart == Session(6, 7, "", "Qualifying ", 0, 950)

\* the longest sibling list of the resolver runs
MaxSiblings == 3

ResSessions == {S_Practice, S_Quali, S_Race, S_SprintNoEnd, S_RaceBadStart, S_QualiNoStart}

ResSiblingLists == UNION {[1..k -> ResSessions] : k \in 0..MaxSiblings}

\* RACE_WINDOW_PADDING_HOURS as configured
ResPadHours == {-5, 0, 1, 24, 100}

\* one call of _pick_current_meeting_and_window on the two answers and the
\* configured padding that are waiting; the result is kept with them
Resolve ==
    /\ reply.op = "resolver inputs"
    /\ reply' = [op |-> "resolve", latest |-> reply.latest,
                 all_sessions |-> reply.all_sessions, pad_hours |-> reply.pad_hours,
                 info |-> PickWindow(reply.latest, reply.all_sessions, reply.pad_hours)]
    /\ UNCHANGED <<sups, budget, killed, ticks, guilds, RACE_LIVE_TASKS, RACE_LIVE_ENABLED, RACE_LIVE_DEBUG,
                   RACE_LIVE_POSTED_SIGS, tasks, threads, sup, starts, polls, cmds>>

\* lines 1157-1162 on a window the resolver gave: the supervisor sorts the
\* followed sessions by start and takes the key of the last one; the key is
\* kept with the resolver's inputs
PickSession ==
    /\ reply.op = "resolve"
    /\ reply.info.kind = "window"
    /\ reply' = [op |-> "session", latest |-> reply.latest,
                 all_sessions |-> reply.all_sessions, pad_hours |-> reply.pad_hours,
                 info |-> reply.info,
                 session_key |-> LatestRelevant(reply.info.relevant).session_key]
    /\ UNCHANGED <<sups, budget, killed, ticks, guilds, RACE_LIVE_TASKS, RACE_LIVE_ENABLED,
                   RACE_LIVE_DEBUG, RACE_LIVE_POSTED_SIGS, tasks, threads, sup, starts,
                   polls, cmds>>

\* the state of Boot but for reply, which holds what the resolver will be
\* answered
InitWindow ==
    /\ guilds = GuildIds
    /\ RACE_LIVE_TASKS = EmptyDict
    /\ RACE_LIVE_ENABLED = EmptyDict
    /\ RACE_LIVE_DEBUG = EmptyDict
    /\ RACE_LIVE_POSTED_SIGS = EmptyDict
    /\ tasks = <<>>
    /\ threads = <<>>
    /\ sup = SupAsleep("ready")
    /\ starts = <<>>
    /\ polls = 0
    /\ cmds = 0
    /\ killed = {}
    /\ ticks = <<>>
    /\ sups = 1
    /\ budget = [tasks |-> 0, polls |-> 0, cmds |-> 0, batch |-> 0, ticks |-> 0, statuses |-> {500},
                 feed |-> {}]
    /\ \E latest \in Latests, all_sessions \in ResSiblingLists, pad_hours \in ResPadHours :
          reply = [op |-> "resolver inputs", latest |-> latest,
                   all_sessions |-> all_sessions, pad_hours |-> pad_hours]

NextWindow ==
    \/ Resolve
    \/ PickSession

SpecWindow == InitWindow /\ [][NextWindow]_vars


\* --------------------------------------------- on_ready and the supervisor
MaxReadies == 3

ReadyTasks == 1

ReadyPolls == 1

ReadyBatch == 1

ReadyTicks == 3

\* on_ready fires again (the gateway session was replaced): it creates one more
\* race_supervisor_loop task with "bot.loop.create_task(race_supervisor_loop())"
\* and touches none of the race-live dictionaries; sup stays the task of the
\* first firing, the later ones are counted
OnReady ==
    /\ sups < MaxReadies
    /\ sups' = sups + 1
    /\ UNCHANGED <<budget, killed, ticks, guilds, RACE_LIVE_TASKS, RACE_LIVE_ENABLED,
                   RACE_LIVE_DEBUG, RACE_LIVE_POSTED_SIGS, tasks, threads, sup, starts,
                   reply, polls, cmds>>

InitReady ==
    /\ guilds = GuildIds
    /\ RACE_LIVE_TASKS = EmptyDict
    /\ RACE_LIVE_ENABLED = EmptyDict
    /\ RACE_LIVE_DEBUG = EmptyDict
    /\ RACE_LIVE_POSTED_SIGS = EmptyDict
    /\ tasks = <<>>
    /\ threads = <<>>
    /\ sup = SupAsleep("ready")
    /\ starts = <<>>
    /\ reply = NoReply
    /\ polls = 0
    /\ cmds = 0
    /\ killed = {}
    /\ ticks = <<>>
    /\ sups = 1
    /\ budget = [tasks |-> ReadyTasks, polls |-> ReadyPolls, cmds |-> 0,
                 batch |-> ReadyBatch, ticks |-> ReadyTicks, statuses |-> {500},
                 feed |-> {}]

NextReady ==
    \/ OnReady
    \/ SupCycle
    \/ SupEnsureDone
    \/ \E t \in DOMAIN tasks : TaskStart(t)
    \/ \E t \in DOMAIN tasks : AttachDone(t)
    \/ \E t \in DOMAIN tasks : FetchDone(t)
    \/ \E t \in DOMAIN tasks : SendDone(t)
    \/ \E t \in DOMAIN tasks : SleepDone(t)
    \/ \E t \in DOMAIN tasks : BackoffDone(t)

SpecReady == InitReady /\ [][NextReady]_vars


\* ------------------------------------------ a session source that says no
\* SpecAuth, the runs in which OpenF1 may answer a fetch with 401 or 403 as
\* well as with a server error: follower tasks ever created, feed responses,
\* longest response
AuthTasks == 1

AuthPolls == 2

AuthBatch == 1

AuthStatuses == {401, 403, 500}

InitAuth ==
    /\ guilds = GuildIds
    /\ RACE_LIVE_TASKS = EmptyDict
    /\ RACE_LIVE_ENABLED = EmptyDict
    /\ RACE_LIVE_DEBUG = EmptyDict
    /\ RACE_LIVE_POSTED_SIGS = EmptyDict
    /\ tasks = <<>>
    /\ threads = <<>>
    /\ sup = SupAsleep("ready")
    /\ starts = <<>>
    /\ reply = NoReply
    /\ polls = 0
    /\ cmds = 0
    /\ killed = {}
    /\ ticks = <<>>
    /\ sups = 1
    /\ budget = [tasks |-> AuthTasks, polls |-> AuthPolls, cmds |-> 0,
                 batch |-> AuthBatch, ticks |-> 0, statuses |-> AuthStatuses,
                 feed |-> {}]

NextAuth ==
    \/ SupCycle
    \/ SupEnsureDone
    \/ \E t \in DOMAIN tasks : TaskStart(t)
    \/ \E t \in DOMAIN tasks : AttachDone(t)
    \/ \E t \in DOMAIN tasks : FetchDone(t)
    \/ \E t \in DOMAIN tasks : SendDone(t)
    \/ \E t \in DOMAIN tasks : SleepDone(t)
    \/ \E t \in DOMAIN tasks : BackoffDone(t)

SpecAuth == InitAuth /\ [][NextAuth]_vars


\* ------------------------------------------------- responses longer than 30
\* SpecSlice, the runs in which the feed answers with lists of more than
\* LAST_ITEMS elements: follower tasks ever created, feed responses
SliceTasks == 1

SlicePolls == 2

I_C == Item(TRUE, 3, <<"c">>)

\* n elements without a message
Blanks(n) == [i \in 1..n |-> I_Blank]

\* a list of LAST_ITEMS + 1 elements with item A first and item B last, and a
\* list of LAST_ITEMS elements with item C first and item B last
DeepFeed == <<I_A>> \o Blanks(LAST_ITEMS - 1) \o <<I_B>>

EdgeFeed == <<I_C>> \o Blanks(LAST_ITEMS - 2) \o <<I_B>>

InitSlice ==
    /\ guilds = GuildIds
    /\ RACE_LIVE_TASKS = EmptyDict
    /\ RACE_LIVE_ENABLED = EmptyDict
    /\ RACE_LIVE_DEBUG = EmptyDict
    /\ RACE_LIVE_POSTED_SIGS = EmptyDict
    /\ tasks = <<>>
    /\ threads = <<>>
    /\ sup = SupAsleep("ready")
    /\ starts = <<>>
    /\ reply = NoReply
    /\ polls = 0
    /\ cmds = 0
    /\ killed = {}
    /\ ticks = <<>>
    /\ sups = 1
    /\ budget = [tasks |-> SliceTasks, polls |-> SlicePolls, cmds |-> 0,
                 batch |-> 0, ticks |-> 0, statuses |-> {500},
                 feed |-> {DeepFeed, EdgeFeed}]

NextSlice ==
    \/ SupCycle
    \/ SupEnsureDone
    \/ \E t \in DOMAIN tasks : TaskStart(t)
    \/ \E t \in DOMAIN tasks : AttachDone(t)
    \/ \E t \in DOMAIN tasks : FetchDone(t)
    \/ \E t \in DOMAIN tasks : SendDone(t)
    \/ \E t \in DOMAIN tasks : SleepDone(t)
    \/ \E t \in DOMAIN tasks : BackoffDone(t)

SpecSlice == InitSlice /\ [][NextSlice]_vars

\* ------------------------------------------------ the debug trail on its own
\* SpecLog, the runs of _racelog alone: how many lines are logged
MaxLogged == 205

\* one call of _racelog for the guild; the lines are numbered as they come
LogAppend(gid) ==
    /\ reply.op = "log"
    /\ reply.n < MaxLogged
    /\ reply' = [reply EXCEPT !.n = @ + 1]
    /\ RACE_LIVE_DEBUG' = Racelog(RACE_LIVE_DEBUG, gid, Line("line", reply.n + 1))
    /\ UNCHANGED <<sups, budget, killed, ticks, guilds, RACE_LIVE_TASKS, RACE_LIVE_ENABLED,
                   RACE_LIVE_POSTED_SIGS, tasks, threads, sup, starts, polls, cmds>>

\* the state of Boot but for reply, which counts the lines logged
InitLog ==
    /\ guilds = GuildIds
    /\ RACE_LIVE_TASKS = EmptyDict
    /\ RACE_LIVE_ENABLED = EmptyDict
    /\ RACE_LIVE_DEBUG = EmptyDict
    /\ RACE_LIVE_POSTED_SIGS = EmptyDict
    /\ tasks = <<>>
    /\ threads = <<>>
    /\ sup = SupAsleep("ready")
    /\ starts = <<>>
    /\ polls = 0
    /\ cmds = 0
    /\ killed = {}
    /\ ticks = <<>>
    /\ sups = 1
    /\ budget = [tasks |-> 0, polls |-> 0, cmds |-> 0, batch |-> 0, ticks |-> 0, statuses |-> {500},
                 feed |-> {}]
    /\ reply = [op |-> "log", n |-> 0]

NextLog ==
    \/ \E gid \in guilds : LogAppend(gid)

SpecLog == InitLog /\ [][NextLog]_vars

\* ------------------------------------------- two followers of one guild
\* SpecPair, the runs in which racelivestart is the only command and every
\* follower may get a response: follower tasks ever created, feed responses,
\* commands invoked
PairTasks == 2
PairPolls == 2
PairCmds == 1

\* what the feed answers in these runs besides the empty list: one item, in
\* either of two spellings of the same date and message
PairFeed == {<<I_A>>, <<I_Apad>>}

InitPair ==
    /\ Boot
    /\ budget = [tasks |-> PairTasks, polls |-> PairPolls, cmds |-> PairCmds,
                 batch |-> 0, ticks |-> 0, statuses |-> {500},
                 feed |-> PairFeed]

NextPair ==
    \/ SupCycle
    \/ SupEnsureDone
    \/ \E t \in DOMAIN tasks : TaskStart(t)
    \/ \E t \in DOMAIN tasks : AttachDone(t)
    \/ \E t \in DOMAIN tasks : FetchDone(t)
    \/ \E t \in DOMAIN tasks : SendDone(t)
    \/ \E t \in DOMAIN tasks : SleepDone(t)
    \/ \E t \in DOMAIN tasks : BackoffDone(t)
    \/ \E gid \in guilds : StartBegin(gid)
    \/ \E k \in DOMAIN starts : StartLatestDone(k)
    \/ \E k \in DOMAIN starts : StartEnsureDone(k)

SpecPair == InitPair /\ [][NextPair]_vars

\* ================================================================== claims
\* how many of a destination's relays carry the signature s
Relays(th, s) ==
    Cardinality({i \in DOMAIN threads[th].posts :
                   <<threads[th].posts[i].date, threads[th].posts[i].text>> = s})

\* the debug lines of a guild
Trail(gid) == DictGet(RACE_LIVE_DEBUG, gid, <<>>)

HasLine(gid, text) == \E i \in DOMAIN Trail(gid) : Trail(gid)[i][1] = text

C2_AtMostOnce ==
    \A th \in DOMAIN threads :
        \A i, j \in DOMAIN threads[th].posts :
            (threads[th].posts[i] = threads[th].posts[j]) => i = j

\* a run with a failed fetch and a failed send that relayed an item
C2_Witness ==
    \E th \in DOMAIN threads :
        /\ Len(threads[th].posts) >= 1
        /\ HasLine(threads[th].gid, "ERROR HTTPException")
        /\ HasLine(threads[th].gid, "ERROR ClientError")

\* C3 as stated: the relays of one run are in non-decreasing order of their
\* timestamps, in whatever order the feed lists the items.
C3_OrderPreserved ==
    \A th \in DOMAIN threads :
        \A i, j \in DOMAIN threads[th].posts :
            i < j => threads[th].posts[i].date <= threads[th].posts[j].date

\* the follower tasks of a guild, and its destinations
TasksOf(gid) == {t \in DOMAIN tasks : tasks[t].gid = gid}

ThreadsOf(gid) == {th \in DOMAIN threads : threads[th].gid = gid}

\* the supervisor stopped no follower of the guild so far
NeverStopped(gid) == ~HasLine(gid, "Supervisor stopping live loop")

C5_OneRunningFollower ==
    \A t \in DOMAIN tasks :
        ~TaskDone(t) => (tasks[t].gid \in DOMAIN RACE_LIVE_TASKS
                         /\ RACE_LIVE_TASKS[tasks[t].gid] = t)

\* C6 as stated: after a cycle in which the time is outside the resolved
\* window, every follower the supervisor started is done, has its
\* cancellation requested, or has its guild's enabled flag off (it leaves at
\* its next loop test).
C6_NoPollerOutsideWindow ==
    [][\A o \in SupOutcomes :
          (o.kind = "window" /\ ~o.in_window /\ SupCycleOn(o))
              => \A t \in DOMAIN tasks' :
                    tasks'[t].origin = "supervisor"
                        => \/ tasks'[t].pc = "done"
                           \/ tasks'[t].cancel
                           \/ ~LoopEnabled(RACE_LIVE_ENABLED', tasks'[t].gid)]_vars

\* s is the beginning of r
IsPrefix(s, r) == Len(s) <= Len(r) /\ SubSeq(r, 1, Len(s)) = s

\* C7 as stated: in a cycle whose window has ended, every follower that is
\* running was disabled and cancelled, and its guild's trail kept its lines.
C7_WindowCloseCancels ==
    [][\A o \in SupOutcomes :
          (o.kind = "window" /\ o.ended /\ SupCycleOn(o))
              => \A t \in DOMAIN tasks :
                    ~TaskDone(t)
                        => /\ DictGet(RACE_LIVE_ENABLED', tasks[t].gid, TRUE) = FALSE
                           /\ tasks'[t].cancel
                           /\ IsPrefix(Trail(tasks[t].gid), Trail(tasks[t].gid)')]_vars

\* C8 as stated: in a cycle whose resolver call gives no window, the follower
\* of every guild whose registered task is running is disabled and cancelled.
C8_NoWindowCancels ==
    [][\A o \in SupOutcomes :
          (o.kind = "none" /\ SupCycleOn(o))
              => \A gid \in guilds :
                    Running(RACE_LIVE_TASKS, gid)
                        => /\ DictGet(RACE_LIVE_ENABLED', gid, TRUE) = FALSE
                           /\ tasks'[RACE_LIVE_TASKS[gid]].cancel]_vars

\* C9 as stated: a follower that racelivekill found suspended in its poll
\* sleep, its backoff sleep or its fetch relays nothing any more and starts
\* no further poll.
C9_KillStopsFollower ==
    [][\A t \in killed :
          /\ threads'[tasks[t].thread].posts = threads[tasks[t].thread].posts
          /\ tasks'[t].pc = "fetch" => tasks[t].pc = "fetch"]_vars

Shown(trail, k) ==
    LET m == IF k < Len(trail) THEN k ELSE Len(trail)
    IN  IF m <= 0 THEN <<<<"(no debug lines captured)", 0>>>>
        ELSE [i \in 1..m |-> trail[Len(trail) - m + i]]

\* a step of racelivetail for the guild
TailStep(gid) ==
    cmds' = cmds + 1 /\ reply'.op = "tail" /\ reply'.n = cmds' /\ reply'.gid = gid

C12_ManualStart ==
    [][/\ (Len(starts') = Len(starts) + 1) =>
            \A t \in TasksOf(starts'[Len(starts')].gid) :
                ~TaskDone(t) => tasks'[t].cancel
       /\ (Len(tasks') = Len(tasks) + 1 /\ tasks'[Len(tasks')].origin = "manual") =>
            LET t == Len(tasks')
                gid == tasks'[t].gid
            IN  /\ RACE_LIVE_ENABLED'[gid] = TRUE
                /\ RACE_LIVE_TASKS'[gid] = t
                /\ tasks'[t].pc # "done"
                /\ ~tasks'[t].cancel
                /\ Len(threads') = Len(threads) + 1
                /\ tasks'[t].thread = Len(threads')
                /\ threads'[Len(threads')] = [gid |-> gid, posts |-> <<>>]
                /\ \E l \in Latests : l # <<>> /\ tasks'[t].session_key = l[1].session_key
                /\ reply'.op = "start: started"]_vars

\* the followed ones among the sessions of a list
Followed(all_sessions) ==
    {i \in DOMAIN all_sessions : SessionTypeUpper(all_sessions[i]) \in FOLLOW_SESSION_TYPES}

\* C13: whenever the resolver gives a window, it starts at the earliest start
\* of the followed sibling sessions less the padding and ends at their latest
\* end plus the padding (the configured hours kept within 0..72), and the
\* sessions that are not followed change nothing: the list without them
\* gives the same window.
C13_WindowCorrect ==
    (reply.op \in {"resolve", "session"} /\ reply.info.kind = "window") =>
        LET all == reply.all_sessions
            S == {all[i].date_start : i \in Followed(all)} \ {0}
            E == {all[i].date_end : i \in Followed(all)} \ {0}
            h == IF reply.pad_hours < 0 THEN 0
                 ELSE IF reply.pad_hours > 72 THEN 72 ELSE reply.pad_hours
            only == SelectSeq(all, LAMBDA x : SessionTypeUpper(x) \in FOLLOW_SESSION_TYPES)
            again == PickWindow(reply.latest, only, reply.pad_hours)
        IN  /\ S # {} /\ E # {}
            /\ \A x \in S : reply.info.window_start <= x - 60 * h
            /\ \E x \in S : reply.info.window_start = x - 60 * h
            /\ \A x \in E : reply.info.window_end >= x + 60 * h
            /\ \E x \in E : reply.info.window_end = x + 60 * h
            /\ again.kind = "window"
            /\ again.window_start = reply.info.window_start
            /\ again.window_end = reply.info.window_end

\* the example: sessions 10:00-11:30 and 13:00-15:00 listed latest first,
\* with a practice session that is not followed, and a padding of one hour
\* give 09:00 to 16:00
C13_Witness ==
    /\ reply.op = "resolve"
    /\ reply.all_sessions = <<S_Race, S_Practice, S_Quali>>
    /\ reply.pad_hours = 1
    /\ reply.info.kind = "window"
    /\ reply.info.window_start = 540
    /\ reply.info.window_end = 960

\* all the supervisor's cycles so far are noted and every one found no window
OnlyNoWindowTicks ==
    /\ sup.pc = "sleep"
    /\ Len(ticks) < budget.ticks
    /\ \A i \in DOMAIN ticks : ticks[i].kind = "none"

\* C14: from boot, with no command given, as long as every cycle of the
\* supervisor found no window (three of them and fewer), no follower task and
\* no destination exists, the registry is empty, and the supervisor took the
\* idle sleep after each of those cycles.
C14_ColdStart ==
    (OnlyNoWindowTicks /\ cmds = 0)
        => /\ tasks = <<>>
           /\ threads = <<>>
           /\ RACE_LIVE_TASKS = EmptyDict
           /\ \A i \in DOMAIN ticks : ticks[i].sleep = "idle"
           /\ (ticks # <<>> => sup.sleep = "idle")

\* three cycles have found no window, in a bot that is in no guild
C14_Witness ==
    /\ guilds = {}
    /\ OnlyNoWindowTicks
    /\ Len(ticks) = 3
    /\ sup.sleep = "idle"
    /\ tasks = <<>>

\* C15 as stated: when the supervisor's provisioning fails for a guild, the
\* cycle goes on with the guilds still to visit: if one of them has no running
\* follower, the supervisor provisions for it next instead of ending the cycle.
C15_FailureIsolated ==
    [][(sup.pc = "ensure" /\ sup' # sup /\ tasks' = tasks)
          => ((\E i \in DOMAIN sup.todo : ~Running(RACE_LIVE_TASKS, sup.todo[i]))
                 => (sup'.pc = "ensure" /\ sup'.gid # sup.gid))]_vars

\* C16 as stated: a cycle whose resolver call raises ends in the idle sleep,
\* as a cycle without a window does.
C16_ResolverErrorIdles ==
    [][\A o \in SupOutcomes :
          (o.kind = "raise" /\ SupCycleOn(o))
              => (sup'.pc = "sleep" /\ sup'.sleep = "idle")]_vars

\* how many lines of a guild's trail carry the text
CountLines(gid, text) ==
    Cardinality({i \in DOMAIN Trail(gid) : Trail(gid)[i][1] = text})

\* C17: a follower whose fetch fails goes to its backoff sleep with an error
\* line appended to the guild's trail; when that sleep ends with the flag on
\* and no cancellation requested it polls again; and a follower inside its
\* loop ends only when its cancellation was requested or the flag was off.
C17_FetchErrorRetries ==
    [][\A t \in DOMAIN tasks :
          LET gid == tasks[t].gid
          IN  /\ (tasks[t].pc = "fetch" /\ tasks'[t].pc = "backoff")
                    => /\ Len(Trail(gid)') > Len(Trail(gid))
                       /\ Trail(gid)'[Len(Trail(gid)')][1]
                              \in {"ERROR ClientError", "ERROR AttributeError"}
                       /\ IsPrefix(Trail(gid), Trail(gid)')
              /\ (tasks[t].pc = "backoff" /\ tasks'[t].pc # "backoff" /\ ~tasks[t].cancel
                     /\ LoopEnabled(RACE_LIVE_ENABLED, gid))
                    => tasks'[t].pc = "fetch"
              /\ (tasks[t].pc \in {"fetch", "send", "sleep", "backoff"}
                     /\ tasks'[t].pc = "done")
                    => (tasks[t].cancel \/ ~LoopEnabled(RACE_LIVE_ENABLED, gid))]_vars

\* two fetches in a row have failed and the follower is polling a third time
C17_Witness ==
    \E t \in DOMAIN tasks :
        /\ tasks[t].pc = "fetch"
        /\ ~tasks[t].cancel
        /\ CountLines(tasks[t].gid, "ERROR ClientError") = 2
        /\ CountLines(tasks[t].gid, "poll race_control") = 3

\* C18 as stated: a follower that starts after an earlier follower of its
\* guild has ended starts with an empty signature set.
C18_FreshSignatures ==
    [][\A t \in DOMAIN tasks :
          (tasks[t].pc = "created" /\ tasks'[t].pc = "attach"
             /\ \E u \in TasksOf(tasks[t].gid) : u # t /\ TaskDone(u))
              => RACE_LIVE_POSTED_SIGS'[tasks[t].gid] = {}]_vars

\* C19: every step that creates a follower task, by the supervisor or by
\* racelivestart, creates one destination with it, of the same guild and with
\* nothing relayed to it, and the new task is the only task on it.
C19_NewDestination ==
    [][(Len(tasks') # Len(tasks)) =>
          LET t == Len(tasks')
          IN  /\ Len(tasks') = Len(tasks) + 1
              /\ Len(threads') = Len(threads) + 1
              /\ tasks'[t].thread = Len(threads')
              /\ threads'[Len(threads')] = [gid |-> tasks'[t].gid, posts |-> <<>>]
              /\ \A u \in DOMAIN tasks : tasks'[u].thread # tasks'[t].thread]_vars

\* a second follower of a guild is polling on its own destination after the first
\* one, now done, relayed an item to the first destination
C19_Witness ==
    \E t, u \in DOMAIN tasks :
        /\ t < u
        /\ tasks[t].gid = tasks[u].gid
        /\ TaskDone(t)
        /\ threads[tasks[t].thread].posts # <<>>
        /\ tasks[u].pc = "fetch"
        /\ tasks[u].thread # tasks[t].thread
        /\ threads[tasks[u].thread].posts = <<>>

\* C20: no trail ever holds more than 200 lines, and after n lines were
\* logged for a guild its trail is the last min(n, 200) of them, in the order
\* they were logged.
C20_BoundedTrail ==
    /\ \A gid \in DOMAIN RACE_LIVE_DEBUG : Len(RACE_LIVE_DEBUG[gid]) <= 200
    /\ reply.op = "log" =>
          \A gid \in guilds :
              LET tr == Trail(gid)
                  n == reply.n
              IN  /\ Len(tr) = (IF n < 200 THEN n ELSE 200)
                  /\ \A i \in DOMAIN tr : tr[i] = <<"line", n - Len(tr) + i>>

\* 203 lines were logged: the trail holds lines 4 to 203
C20_Witness ==
    /\ reply.op = "log"
    /\ reply.n = 203
    /\ Len(Trail(1)) = 200
    /\ Trail(1)[1] = <<"line", 4>>
    /\ Trail(1)[200] = <<"line", 203>>

\* the last line of a guild's trail carries the text
LastLineIs(trailOf, text) == trailOf # <<>> /\ trailOf[Len(trailOf)][1] = text

\* C21 as stated: a follower that takes a requested cancellation at one of its
\* awaits ends in that step, relays nothing further (at most the send it was
\* in reaches the destination), and the guild's trail keeps its lines and
\* ends with the cancellation line.
C21_CancelExits ==
    [][\A t \in DOMAIN tasks :
          (tasks[t].cancel /\ tasks[t].pc \in {"attach", "fetch", "send", "sleep", "backoff"}
             /\ tasks'[t] # tasks[t])
              => LET gid == tasks[t].gid
                     th == tasks[t].thread
                 IN  /\ tasks'[t].pc = "done"
                     /\ \/ threads'[th].posts = threads[th].posts
                        \/ /\ tasks[t].pc = "send"
                           /\ threads'[th].posts =
                                 Append(threads[th].posts, Post(tasks[t].rc[tasks[t].i]))
                     /\ IsPrefix(Trail(gid), Trail(gid)')
                     /\ LastLineIs(Trail(gid)', "race_live_loop cancelled")]_vars

\* what the program holds for one guild: its flag, its registry entry, its
\* trail and signatures, its followers and its destinations
GuildState(gid) ==
    [en |-> DictGet(RACE_LIVE_ENABLED, gid, None),
     reg |-> DictGet(RACE_LIVE_TASKS, gid, None),
     dbg |-> DictGet(RACE_LIVE_DEBUG, gid, None),
     sigs |-> DictGet(RACE_LIVE_POSTED_SIGS, gid, None),
     ts |-> [t \in TasksOf(gid) |-> tasks[t]],
     ths |-> [th \in ThreadsOf(gid) |-> threads[th]]]

\* the follower registered for the guild has not ended
HasRunning(gid) ==
    gid \in DOMAIN RACE_LIVE_TASKS /\ tasks[RACE_LIVE_TASKS[gid]].pc # "done"

\* the step is a cycle of the supervisor that resolved a window: it leaves a
\* sleep for the await of a provisioning, or it is noted in the history with
\* the window it found
WindowCycle ==
    /\ sup.pc = "sleep"
    /\ \/ sup'.pc = "ensure"
       \/ /\ Len(ticks') = Len(ticks) + 1
          /\ ticks'[Len(ticks')].kind = "window"

\* the time of that cycle was inside the window: only then the supervisor
\* provisions, and only then the cycle ends in the 60 s sleep
CycleInWindow == sup'.pc = "ensure" \/ sup'.sleep = "active"

\* C22: a supervisor cycle is idempotent. A cycle inside the window leaves a
\* guild whose follower is running as it was and provisions nothing for it; a
\* cycle outside the window leaves a guild without a running follower as it
\* was (its flag included).
C22_TickIdempotent ==
    [][\A gid \in guilds :
          (WindowCycle /\ (CycleInWindow <=> HasRunning(gid)))
              => /\ GuildState(gid)' = GuildState(gid)
                 /\ ~(sup'.pc = "ensure" /\ sup'.gid = gid)]_vars

\* after a cycle outside the window and two inside it, the second of which
\* found the follower the first had started, the guild has that one follower,
\* still running, one destination, and was never stopped
C22_Witness ==
    /\ Len(ticks) = 3
    /\ ticks[1] = [kind |-> "window", sleep |-> "idle"]
    /\ ticks[2] = [kind |-> "window", sleep |-> "active"]
    /\ ticks[3] = [kind |-> "window", sleep |-> "active"]
    /\ \A gid \in guilds :
          /\ Cardinality(TasksOf(gid)) = 1
          /\ Cardinality(ThreadsOf(gid)) = 1
          /\ HasRunning(gid)
          /\ NeverStopped(gid)
          /\ RACE_LIVE_ENABLED[gid]

\* C23 as stated: exactly one supervisor task exists while the bot runs.
C23_OneSupervisor == sups = 1

\* C24: the supervisor's cadence. A cycle that resolved a window with the
\* current time inside it is followed by a sleep of the active interval (60 s),
\* also when it had to provision on the way; a cycle that found no window, or
\* the current time outside the window, by a sleep of the idle interval, which
\* is not shorter.
C24_Cadence ==
    [][/\ (sup.pc = "sleep" /\ sup'.pc = "sleep" /\ Len(ticks') = Len(ticks) + 1)
             => \A o \in SupOutcomes :
                   (o.kind \in {"none", "window"} /\ SupCycleOn(o))
                       => SleepSeconds(sup'.sleep) =
                             IF o.in_window THEN ACTIVE_S ELSE idle_s
       /\ (sup.pc = "ensure" /\ sup.in_window /\ sup'.pc = "sleep")
             => SleepSeconds(sup'.sleep) = ACTIVE_S
       /\ ACTIVE_S <= idle_s]_vars

\* a bot in no guild saw a cycle without a window, one inside a window and one
\* outside it, and slept idle, active and idle after them
C24_Witness ==
    /\ guilds = {}
    /\ ticks = <<[kind |-> "none", sleep |-> "idle"],
                 [kind |-> "window", sleep |-> "active"],
                 [kind |-> "window", sleep |-> "idle"]>>
    /\ sup = SupAsleep("idle")

\* C25: the session key the supervisor derives for its followers is the key of
\* a followed sibling that has a start, and no followed sibling starts later;
\* a followed sibling without a start is not the one chosen.
C25_LatestStarting ==
    reply.op = "session" =>
        LET all == reply.all_sessions
            started == {i \in Followed(all) : all[i].date_start # 0}
        IN  \E i \in started :
               /\ all[i].session_key = reply.session_key
               /\ \A j \in started : all[j].date_start <= all[i].date_start

\* qualifying at 10:00, the race at 13:00 and, last in the list, a qualifying
\* session without a start: the race's key is taken
C25_Witness ==
    /\ reply.op = "session"
    /\ reply.all_sessions = <<S_Quali, S_Race, S_QualiNoStart>>
    /\ reply.session_key = S_Race.session_key

\* C26: the padding the resolver applies is the configured one kept within 0
\* to 72 hours: the window is never narrower than earliest start to latest end
\* and never wider than that by more than 72 hours on either side; below 0 it
\* is exactly that span, above 72 exactly 72 hours wider on each side.
C26_PadClamped ==
    (reply.op \in {"resolve", "session"} /\ reply.info.kind = "window") =>
        LET all == reply.all_sessions
            S == {all[i].date_start : i \in Followed(all)} \ {0}
            E == {all[i].date_end : i \in Followed(all)} \ {0}
            lo == CHOOSE x \in S : \A y \in S : x <= y
            hi == CHOOSE x \in E : \A y \in E : y <= x
            before == lo - reply.info.window_start
            after == reply.info.window_end - hi
        IN  /\ 0 <= before /\ before <= 72 * 60
            /\ 0 <= after /\ after <= 72 * 60
            /\ before = after
            /\ (reply.pad_hours <= 0 => before = 0)
            /\ (reply.pad_hours >= 72 => before = 72 * 60)
            /\ (reply.pad_hours \in 0..72 => before = 60 * reply.pad_hours)

\* configured at 100 hours, the window of qualifying 10:00-11:30 and the race
\* 13:00-15:00 opens 72 hours before 10:00 and closes 72 hours after 15:00
C26_Witness ==
    /\ reply.op = "resolve"
    /\ reply.all_sessions = <<S_Quali, S_Race>>
    /\ reply.pad_hours = 100
    /\ reply.info.kind = "window"
    /\ reply.info.window_start = 600 - 4320
    /\ reply.info.window_end = 900 + 4320

\* the texts of the lines the program writes for something other than one
\* relayed item: every _racelog call of the follower, its runner and the
\* supervisor
OtherLines ==
    {"race_live_loop started", "poll race_control", "race_control items",
     "race_live_loop cancelled", "race_live_loop exited", "ERROR AttributeError",
     "ERROR ClientError", "ERROR HTTPException", "FATAL",
     "Supervisor starting live loop", "Supervisor stopping live loop"}

\* the lines of a guild's trail written for a relayed item
RelayLines(gid) == {i \in DOMAIN Trail(gid) : Trail(gid)[i][1] \notin OtherLines}

\* the items relayed to the destinations of a guild
Relayed(gid) ==
    UNION {{<<th, i>> : i \in DOMAIN threads[th].posts} : th \in ThreadsOf(gid)}

\* C27 as stated: every relayed item has its line in the guild's trail, so the
\* trail (as long as nothing was dropped from it) holds as many relay lines as
\* items were relayed.
C27_RelayLogged ==
    \A gid \in guilds :
        Len(Trail(gid)) < DEQUE_MAXLEN
            => Cardinality(RelayLines(gid)) = Cardinality(Relayed(gid))

\* the step is one of the supervisor (only the supervisor moves sup) or a
\* racelivekill or racelivetail that answered
OwnerlessStep ==
    \/ sup' # sup
    \/ WindowCycle
    \/ (cmds' = cmds + 1 /\ reply'.op \in {"kill", "tail"} /\ reply'.n = cmds')

\* C28 as stated: a step of the supervisor, of racelivekill or of racelivetail
\* leaves every guild's debug trail and signature set as they were.
C28_SingleWriter ==
    [][OwnerlessStep
          => /\ RACE_LIVE_DEBUG' = RACE_LIVE_DEBUG
             /\ RACE_LIVE_POSTED_SIGS' = RACE_LIVE_POSTED_SIGS]_vars

\* the guilds a cycle has still to visit while the supervisor is suspended in
\* the provisioning for another guild, and that have no running follower: the
\* cycle is inside the window, so each of them is due a follower
HeldBack ==
    IF sup.pc = "ensure"
    THEN {sup.todo[i] : i \in DOMAIN sup.todo} \ {gid \in guilds : HasRunning(gid)}
    ELSE {}

\* C29 as stated: guilds do not block each other. While the provisioning of
\* one guild's destination is outstanding, however long it takes, no other
\* guild's activation waits for it.
C29_NoBlocking == HeldBack = {}

\* the signatures that came to the task in a response and that the guild's
\* set does not hold: items with a message that no pass of the for loop reached
StillNew(t) ==
    {s \in DOMAIN tasks[t].got :
        s \notin DictGet(RACE_LIVE_POSTED_SIGS, tasks[t].gid, {})}

\* C30 as stated: an item that is not a record does not abort the batch. When
\* the follower has just met one (the trail ends with its error line and the
\* follower is in the sleep that follows), every item with a message that the
\* responses brought has been taken up: none of them is still new.
C30_BadItemSkipped ==
    \A t \in DOMAIN tasks :
        (tasks[t].pc = "backoff" /\ LastLineIs(Trail(tasks[t].gid), "ERROR AttributeError"))
            => StillNew(t) = {}

\* the last line of the guild's trail is the one an authentication error writes
AuthErrorLast(trailOf) ==
    /\ LastLineIs(trailOf, "ERROR RuntimeError")
    /\ trailOf[Len(trailOf)][2] \in {401, 403}

\* C31: a 401 or 403 from the session source is reported with a line of its
\* own (exactly those statuses give it), abandons only the poll in which it
\* came (nothing is relayed, nothing is marked seen, the trail keeps its
\* lines), and is retried: from the sleep that follows the follower polls
\* again unless it was cancelled or disabled meanwhile. No fetch error ends
\* the follower, and a supervisor cycle whose request raises leaves the
\* supervisor asleep for its next cycle with every guild as it was.
C31_AuthErrorRetried ==
    [][/\ \A status \in budget.statuses :
             (status \in {401, 403})
                 <=> (ErrorLine(OpenF1Get(status))[1] = "ERROR RuntimeError")
       /\ \A t \in DOMAIN tasks :
             LET gid == tasks[t].gid
             IN  /\ (tasks[t].pc = "fetch" /\ tasks'[t].pc = "backoff"
                        /\ AuthErrorLast(Trail(gid)'))
                       => /\ Len(Trail(gid)') = Len(Trail(gid)) + 1
                          /\ IsPrefix(Trail(gid), Trail(gid)')
                          /\ threads' = threads
                          /\ RACE_LIVE_POSTED_SIGS' = RACE_LIVE_POSTED_SIGS
                 /\ (tasks[t].pc = "backoff" /\ tasks'[t].pc # "backoff"
                        /\ AuthErrorLast(Trail(gid)) /\ ~tasks[t].cancel
                        /\ LoopEnabled(RACE_LIVE_ENABLED, gid))
                       => tasks'[t].pc = "fetch"
                 /\ (tasks[t].pc \in {"fetch", "backoff"} /\ tasks'[t].pc = "done")
                       => (tasks[t].cancel \/ ~LoopEnabled(RACE_LIVE_ENABLED, gid))
       /\ SupCycleOn([kind |-> "raise", in_window |-> FALSE, ended |-> FALSE,
                      session_key |-> 0])
             => /\ sup' = SupAsleep("error")
                /\ \A gid \in guilds : GuildState(gid)' = GuildState(gid)]_vars

\* the source refused two polls in a row, once with 401 and once with 403, and
\* the follower is polling a third time
C31_Witness ==
    \E t \in DOMAIN tasks :
        /\ tasks[t].pc = "fetch"
        /\ ~tasks[t].cancel
        /\ CountLines(tasks[t].gid, "ERROR RuntimeError") = 2
        /\ CountLines(tasks[t].gid, "poll race_control") = 3
        /\ \E i, j \in DOMAIN Trail(tasks[t].gid) :
              /\ Trail(tasks[t].gid)[i] = Line("ERROR RuntimeError", 401)
              /\ Trail(tasks[t].gid)[j] = Line("ERROR RuntimeError", 403)

\* what the two requests answered leaves the resolver nothing to follow: no
\* latest session or one without a meeting, no sibling session, or no sibling
\* of a followed type
NoWindowInputs(latest, all_sessions) ==
    \/ latest = <<>>
    \/ latest[1].meeting_key = 0
    \/ all_sessions = <<>>
    \/ Followed(all_sessions) = {}

\* the cycle outcomes of all such answers, at every time
NoWindowOutcomes ==
    {SupOutcome(x[1], x[2], p, n) :
        x \in {y \in Latests \X SiblingLists : NoWindowInputs(y[1], y[2])},
        p \in PadHours, n \in Times}

\* C32: when there is no latest session (or it names no meeting), the meeting
\* has no sibling sessions, or none of them is of a followed type, the
\* resolver returns none, and the supervisor's cycle on that answer starts no
\* follower: no task, no destination, no registry entry or flag changes, and
\* the supervisor takes its idle sleep (checked on the cycles the history
\* notes).
C32_NoWindowNoFollower ==
    [][(sup.pc = "sleep" /\ sup'.pc = "sleep" /\ Len(ticks') = Len(ticks) + 1)
          => \A o \in NoWindowOutcomes :
                /\ o.kind = "none"
                /\ SupCycleOn(o)
                      => /\ tasks' = tasks
                         /\ threads' = threads
                         /\ RACE_LIVE_TASKS' = RACE_LIVE_TASKS
                         /\ RACE_LIVE_ENABLED' = RACE_LIVE_ENABLED
                         /\ sup' = SupAsleep("idle")]_vars

\* in a bot that is in two guilds, a cycle outside the window and then a
\* cycle that found nothing to follow: no follower was ever created
C32_Witness ==
    /\ guilds # {}
    /\ ticks = <<[kind |-> "window", sleep |-> "idle"], [kind |-> "none", sleep |-> "idle"]>>
    /\ sup = SupAsleep("idle")
    /\ tasks = <<>>
    /\ threads = <<>>

\* the signatures of a guild's set that no destination of the guild shows and
\* that no follower of the guild is sending: marked seen, never delivered
Lost(gid) ==
    {s \in DictGet(RACE_LIVE_POSTED_SIGS, gid, {}) :
        /\ \A th \in ThreadsOf(gid) : Relays(th, s) = 0
        /\ \A t \in TasksOf(gid) :
              tasks[t].pc = "send" => Sig(tasks[t].rc[tasks[t].i]) # s}

\* C33: the signature is in the set before the send. A send that fails leaves
\* the destination and the set as they were, with the item's signature in the
\* set, and ends the batch (the follower goes to its error sleep without
\* looking at the items after it); and a signature that is in the set without
\* having been delivered is never delivered later.
C33_FailedSendLost ==
    [][/\ \A t \in DOMAIN tasks :
             LET gid == tasks[t].gid
             IN  /\ tasks[t].pc = "send"
                       => Sig(tasks[t].rc[tasks[t].i]) \in RACE_LIVE_POSTED_SIGS[gid]
                 /\ (tasks[t].pc = "send" /\ tasks'[t].pc = "backoff"
                        /\ LastLineIs(Trail(gid)', "ERROR HTTPException"))
                       => /\ threads' = threads
                          /\ RACE_LIVE_POSTED_SIGS' = RACE_LIVE_POSTED_SIGS
                          /\ Sig(tasks[t].rc[tasks[t].i]) \in Lost(gid)'
       /\ \A gid \in guilds : Lost(gid) \subseteq Lost(gid)']_vars

\* an item came in two responses, its send failed the first time and it was
\* passed over the second time, while the item after it was relayed
C33_Witness ==
    \E t \in DOMAIN tasks :
        \E s \in DOMAIN tasks[t].got :
            /\ tasks[t].got[s] >= 2
            /\ tasks[t].pc = "sleep"
            /\ s \in Lost(tasks[t].gid)
            /\ HasLine(tasks[t].gid, "ERROR HTTPException")
            /\ Len(threads[tasks[t].thread].posts) = 1

\* every response the feed may give in the run
Responses == Batches(budget.batch) \cup budget.feed

\* the signature belongs to an item with a message that, in every response
\* that lists it, has LAST_ITEMS or more elements after it
DeepOnly(s) ==
    /\ \E rc \in Responses : s \in BatchSigs(rc)
    /\ \A rc \in Responses : \A i \in DOMAIN rc :
          (rc[i].isdict /\ Sig(rc[i]) = s) => Len(rc) - i >= LAST_ITEMS

\* C34: an item that is more than 30 positions from the end of every response
\* that lists it is relayed to no destination and is not marked seen.
C34_OnlyLastThirty ==
    \A rc \in Responses : \A s \in BatchSigs(rc) :
        DeepOnly(s)
            => /\ \A th \in DOMAIN threads : Relays(th, s) = 0
               /\ \A gid \in DOMAIN RACE_LIVE_POSTED_SIGS : s \notin RACE_LIVE_POSTED_SIGS[gid]

\* both long responses have come: item A, 31st from the end, came and was
\* not relayed; item C, 30th from the end, and item B were
C34_Witness ==
    \E t \in DOMAIN tasks :
        /\ tasks[t].pc = "sleep"
        /\ DeepOnly(Sig(I_A))
        /\ Sig(I_A) \in DOMAIN tasks[t].got
        /\ Relays(tasks[t].thread, Sig(I_A)) = 0
        /\ Relays(tasks[t].thread, Sig(I_C)) = 1
        /\ Relays(tasks[t].thread, Sig(I_B)) = 1

\* C35: racelivestart gives the running follower up first and restores
\* nothing. Its first step disables the guild and requests the cancellation of
\* the registered follower if that one has not ended; the step in which the
\* session request answers nothing or raises, or the provisioning raises,
\* ends the command and changes no flag, no registry entry, no task and no
\* destination.
C35_StartNotAtomic ==
    [][/\ (Len(starts') = Len(starts) + 1) =>
            LET gid == starts'[Len(starts')].gid
            IN  HasRunning(gid)
                    => /\ RACE_LIVE_ENABLED'[gid] = FALSE
                       /\ tasks'[RACE_LIVE_TASKS[gid]].cancel
                       /\ starts'[Len(starts')].pc = "latest"
       /\ \A k \in DOMAIN starts :
             (starts[k].pc \in {"latest", "ensure"} /\ starts'[k].pc = "done"
                /\ Len(tasks') = Len(tasks))
                 => /\ RACE_LIVE_ENABLED' = RACE_LIVE_ENABLED
                    /\ RACE_LIVE_TASKS' = RACE_LIVE_TASKS
                    /\ tasks' = tasks
                    /\ threads' = threads]_vars

\* the supervisor's follower was polling when racelivestart was given; the
\* source had no session: the command is over, the follower has ended, the
\* guild is disabled and has no other follower
C35_Witness ==
    /\ Len(starts) = 1
    /\ starts[1].pc = "done"
    /\ reply.op = "start: no sessions"
    /\ Len(tasks) = 1
    /\ tasks[1].pc = "done"
    /\ HasLine(1, "poll race_control")
    /\ HasLine(1, "race_live_loop cancelled")
    /\ RACE_LIVE_ENABLED[1] = FALSE

\* the guild's registered follower was started by racelivestart and has not
\* ended
ManualRunning(gid) ==
    HasRunning(gid) /\ tasks[RACE_LIVE_TASKS[gid]].origin = "manual"

StoppedByCommand(gid) ==
    /\ reply.op \in {"kill", "stop"}
    /\ reply.gid = gid
    /\ gid \in DOMAIN RACE_LIVE_TASKS
    /\ ~HasRunning(gid)
    /\ RACE_LIVE_ENABLED[gid] = FALSE

\* C37: racelivekill and racelivestop do not last. A supervisor cycle inside
\* the window that finds the guild's follower ended after such a command
\* provisions a destination for the guild, and when the provisioning returns
\* the supervisor registers a new follower on that new, empty destination and
\* sets the flag to true.
C37_StopNotSticky ==
    [][/\ (sup.pc = "sleep" /\ \E gid \in guilds : StoppedByCommand(gid))
             => \A o \in SupOutcomes : \A gid \in guilds :
                   (StoppedByCommand(gid) /\ o.kind = "window" /\ o.in_window
                      /\ SupCycleOn(o))
                       => /\ sup'.pc = "ensure"
                          /\ sup'.gid = gid
       /\ (sup.pc = "ensure" /\ sup' # sup /\ Len(tasks') = Len(tasks) + 1)
             => LET t == Len(tasks')
                    gid == sup.gid
                IN  /\ tasks'[t].gid = gid
                    /\ tasks'[t].origin = "supervisor"
                    /\ RACE_LIVE_TASKS'[gid] = t
                    /\ RACE_LIVE_ENABLED'[gid] = TRUE
                    /\ Len(threads') = Len(threads) + 1
                    /\ tasks'[t].thread = Len(threads')
                    /\ threads'[Len(threads')] = [gid |-> gid, posts |-> <<>>]]_vars

\* racelivekill stopped the supervisor's follower, and the supervisor has
\* since started a second one on a second destination: the guild is enabled
C37_Witness ==
    /\ reply.op = "kill"
    /\ Len(tasks) = 2
    /\ tasks[1].pc = "done"
    /\ tasks[2].origin = "supervisor"
    /\ tasks[2].thread = 2
    /\ ~tasks[2].cancel
    /\ RACE_LIVE_TASKS[1] = 2
    /\ RACE_LIVE_ENABLED[1] = TRUE

\* C38: a follower keeps the session key, the guild and the destination it
\* was created with in every step; and a supervisor cycle inside the window
\* (a step that moves the supervisor or leaves every task alone) that resolves
\* another session than the one a guild's running follower polls leaves that
\* guild as it was and provisions nothing for it.
C38_SessionKeyFixed ==
    [][/\ \A t \in DOMAIN tasks :
             /\ tasks'[t].session_key = tasks[t].session_key
             /\ tasks'[t].gid = tasks[t].gid
             /\ tasks'[t].thread = tasks[t].thread
       /\ (sup.pc = "sleep" /\ (sup' # sup \/ tasks' = tasks)
              /\ \E gid \in guilds : HasRunning(gid))
             => \A o \in SupOutcomes : \A gid \in guilds :
                   (HasRunning(gid) /\ o.kind = "window" /\ o.in_window
                      /\ o.session_key # tasks[RACE_LIVE_TASKS[gid]].session_key
                      /\ SupCycleOn(o))
                       => /\ GuildState(gid)' = GuildState(gid)
                          /\ ~(sup'.pc = "ensure" /\ sup'.gid = gid)]_vars

\* guild 1's follower polls the qualifying session; a later cycle resolved
\* the race and is provisioning for guild 2 with the race's key, while guild
\* 1's follower runs on with its own
C38_Witness ==
    /\ sup.pc = "ensure"
    /\ sup.gid = 2
    /\ sup.session_key = S_Race.session_key
    /\ HasRunning(1)
    /\ tasks[RACE_LIVE_TASKS[1]].session_key = S_Quali.session_key
    /\ tasks[RACE_LIVE_TASKS[1]].pc = "fetch"

\* the signatures a guild's followers have noted
PostedSigs(gid) == DictGet(RACE_LIVE_POSTED_SIGS, gid, {})

\* the followers of a guild that are inside "await thread.send" of an item
\* with signature s
Sending(gid, s) ==
    {t \in DOMAIN tasks : /\ tasks[t].gid = gid
                          /\ tasks[t].pc = "send"
                          /\ Sig(tasks[t].rc[tasks[t].i]) = s}

\* how many relays with signature s the destinations of a guild show
RECURSIVE GuildRelays(_, _)
GuildRelays(ths, s) ==
    IF ths = {} THEN 0
    ELSE LET th == CHOOSE x \in ths : TRUE
         IN  Relays(th, s) + GuildRelays(ths \ {th}, s)

\* the step takes follower t to the send of an item
BeginsSend(t) ==
    /\ tasks'[t].pc = "send"
    /\ tasks[t].pc # "send" \/ tasks'[t].i # tasks[t].i

\* C39: a guild's signature set only grows; a follower begins the send of an
\* item only in a step at whose start the item's signature is not in its
\* guild's set and at whose end it is (test and insertion in one step, on the
\* set of the guild, whichever of the guild's followers takes it); and in
\* every state, over all followers and destinations of a guild, the sends of
\* one signature under way and its relays shown are at most one together.
C39_SentByAtMostOne ==
    [][/\ \A gid \in guilds : PostedSigs(gid) \subseteq PostedSigs(gid)'
       /\ \A t \in DOMAIN tasks :
             BeginsSend(t)
                => LET s == Sig(tasks'[t].rc[tasks'[t].i])
                   IN  /\ s \notin PostedSigs(tasks[t].gid)
                       /\ s \in PostedSigs(tasks[t].gid)'
       /\ \A gid \in guilds : \A s \in PostedSigs(gid) :
             Cardinality(Sending(gid, s)) + GuildRelays(ThreadsOf(gid), s) <= 1]_vars

\* two followers of one guild are alive together, the feed gave both the
\* same item, one relayed it and the other passed it over
C39_Witness ==
    \E t, u \in DOMAIN tasks : \E s \in PostedSigs(tasks[t].gid) :
        /\ t # u
        /\ tasks[t].gid = tasks[u].gid
        /\ tasks[t].pc = "sleep"
        /\ tasks[u].pc = "sleep"
        /\ DictGet(tasks[t].got, s, 0) >= 1
        /\ DictGet(tasks[u].got, s, 0) >= 1
        /\ Relays(tasks[t].thread, s) = 1
        /\ GuildRelays(ThreadsOf(tasks[t].gid), s) = 1

====
